---- MODULE Spec2Model ----
(***************************************************************************)
(* ReconForth: the stack VM of wasm-modules/src/reconforth (vm.rs,         *)
(* builtins.rs, types.rs) as a small-step state machine.                   *)
(*                                                                         *)
(* One nested call of VM::execute is one frame of `frames`; one iteration  *)
(* of its while loop is one Exec* action.  A Result::Err travelling up     *)
(* through the `?` operators is the variable `err`; the Unwind* actions    *)
(* are the returns it passes through.                                      *)
(***************************************************************************)
EXTENDS Integers, Sequences, FiniteSets, TLC

VARIABLES
    stack,           \* VM.stack: the data stack, top at the end
    dictionary,      \* VM.dictionary: word name -> WordDef
    current_bundle,  \* VM.current_bundle: Option<Bundle>
    validation,      \* VM.validation: the accumulator
    frames,          \* the nested calls of VM::execute, innermost last
    err,             \* the Result in flight: Ok, or the Error being returned
    status,          \* "idle" between host calls, "running" inside eval,
                     \* "panicked" once a native word panicked
    result,          \* what the last eval returned to the host
    evals,           \* number of eval calls made so far
    lastBV,          \* history: the last bundle-validate that returned Ok
    run,             \* history: the eval call in progress, or the latest one
    overflow_checks, \* the build: TRUE when integer overflow panics (debug
                     \* profile), FALSE when it wraps (release profile)
    input,           \* the text handed to a library function by the host
    returned         \* what the library function returned for it, in order

lib_vars == <<input, returned>>

vars == <<stack, dictionary, current_bundle, validation, frames, err, status,
          result, evals, lastBV, run, overflow_checks, input, returned>>

-----------------------------------------------------------------------------
(* Bounds of the model.                                                    *)

\* at most this many cells are pushed by the host before the bundle
MaxBelow == 2
\* frames deeper than this are not entered (runaway recursion is cut here)
MaxFrames == 5
\* eval calls per VM
MaxEvals == 2
\* the width of Int in bits, scaled down from the 64 of i64
IntBits == 8

-----------------------------------------------------------------------------
(* types.rs: Value.  Every value is a record [t, v]: t the variant, v its   *)
(* payload (0 for Nil).  The payload of a Float is its number of tenths:   *)
(* 1.5 is Value("Float", 15).                                              *)

Value(t, v) == [t |-> t, v |-> v]
Value_Nil == Value("Nil", 0)

\* types.rs: Document, with the metadata fields the words read
\* SHA-256 in lowercase hex, kept abstract: an injective tagging of the content
sha256_hex(content) == "sha256:" \o content

Document(ty, content) ==
    [hash |-> sha256_hex(content), content |-> content, path |-> ty \o ".md",
     document_type |-> ty, version |-> <<>>, canonical_source |-> "Inferred"]

\* types.rs: Bundle { documents }, Bundle::new
Bundle_new == <<>>

\* Option<Bundle>
None == [some |-> FALSE, docs |-> <<>>]
Some(docs) == [some |-> TRUE, docs |-> docs]

\* types.rs: ValidationResult::default
ValidationResult_default ==
    [success |-> TRUE, errors |-> <<>>, warnings |-> <<>>, suggestions |-> <<>>]

\* types.rs: ValidationMessage::new
ValidationMessage_new(message) == [message |-> message, path |-> "", rule |-> ""]

\* types.rs: Rule and PackSpec::new
Rule(name, body) == [name |-> name, body |-> body]
PackSpec_new(name) ==
    [name |-> name, required |-> <<>>, optional |-> <<>>, rules |-> <<>>]

\* types.rs: Value::type_name
type_name(val) == val.t

\* a lookup that compares the path of the documents with the type asked for
has_path(docs, doc_type) ==
    \E i \in 1..Len(docs) : docs[i].path = doc_type

\* a lookup that is satisfied by any document
has_any(docs, doc_type) == docs # <<>>

\* types.rs: Bundle::has_type
has_type(docs, doc_type) ==
    \E i \in 1..Len(docs) : docs[i].document_type = doc_type

\* a lookup that gives the first document, whatever its type
get_first(docs, doc_type) == IF docs = <<>> THEN 0 ELSE 1

\* a lookup that gives the last document of the type
get_last(docs, doc_type) ==
    LET found == {i \in 1..Len(docs) : docs[i].document_type = doc_type} IN
    IF found = {} THEN 0
    ELSE CHOOSE i \in found : \A j \in found : i >= j

\* types.rs: Bundle::get_type: index of the first document of the type, 0 if none
get_type(docs, doc_type) ==
    LET found == {i \in 1..Len(docs) : docs[i].document_type = doc_type} IN
    IF found = {} THEN 0
    ELSE CHOOSE i \in found : \A j \in found : i <= j

-----------------------------------------------------------------------------
(* types.rs: Token.  A record [k, arg]: k the variant.                     *)

Token(k, arg) == [k |-> k, arg |-> arg]

\* Token::Word, Token::Str, Token::Int, and the variants without a payload
W(name) == Token("Word", name)
S(text) == Token("Str", text)
I(n) == Token("Int", n)
T(k) == Token(k, "")

-----------------------------------------------------------------------------
(* types.rs: Error, and its Display text.                                  *)

Ok == [kind |-> "Ok", a |-> "", b |-> ""]
StackUnderflow == [kind |-> "StackUnderflow", a |-> "Stack is empty", b |-> ""]
TypeError(expected, got) == [kind |-> "TypeError", a |-> expected, b |-> got]
UndefinedWord(name) == [kind |-> "UndefinedWord", a |-> name, b |-> ""]
ParseError(msg) == [kind |-> "ParseError", a |-> msg, b |-> ""]
RuntimeError(msg) == [kind |-> "RuntimeError", a |-> msg, b |-> ""]

Display(e) ==
    CASE e.kind = "StackUnderflow" -> "Stack underflow: " \o e.a
      [] e.kind = "TypeError" -> "Type error: expected " \o e.a \o ", got " \o e.b
      [] e.kind = "UndefinedWord" -> "Undefined word: " \o e.a
      [] e.kind = "ParseError" -> "Parse error: " \o e.a
      [] e.kind = "ValidationError" -> "Validation error: " \o e.a
      [] e.kind = "RuntimeError" -> "Runtime error: " \o e.a
      [] OTHER -> ""

-----------------------------------------------------------------------------
(* vm.rs: the stack helpers.  A typed pop returns [err, val, stack]: the   *)
(* cell leaves the stack also when its variant is then refused.            *)

Front(s) == SubSeq(s, 1, Len(s) - 1)
Last(s) == s[Len(s)]

\* vm.rs: VM::push
push(s, value) == Append(s, value)

\* vm.rs: VM::pop
pop(s) ==
    IF s = <<>>
    THEN [err |-> StackUnderflow, val |-> Value_Nil, stack |-> s]
    ELSE [err |-> Ok, val |-> Last(s), stack |-> Front(s)]

\* Rust's `/` and `%` on i64 truncate toward zero
Abs(n) == IF n < 0 THEN -n ELSE n
TruncDiv(a, b) ==
    IF (a < 0) = (b < 0) THEN Abs(a) \div Abs(b) ELSE -(Abs(a) \div Abs(b))
TruncRem(a, b) == a - b * TruncDiv(a, b)

\* i64::MIN, i64::MAX, and the value a wrapping operation keeps of n
i64_MIN == -(2 ^ (IntBits - 1))
i64_MAX == 2 ^ (IntBits - 1) - 1
wrapping(n) == ((n - i64_MIN) % (2 ^ IntBits)) + i64_MIN

\* a float-to-int cast `as i64`: what lies beyond the range of i64 becomes
\* the nearest bound
saturating(n) == IF n > i64_MAX THEN i64_MAX ELSE IF n < i64_MIN THEN i64_MIN ELSE n

\* types.rs: Value::as_int; `*f as i64` truncates toward zero and saturates
\* (the payload of a Float of the model is a finite number of tenths)
as_int(val) ==
    CASE val.t = "Int" -> val.v
      [] val.t = "Float" -> saturating(TruncDiv(val.v, 10))
      [] OTHER -> IF val.v THEN 1 ELSE 0

\* types.rs: Value::as_bool
as_bool(val) ==
    CASE val.t = "Bool" -> val.v
      [] val.t = "Int" -> val.v # 0
      [] OTHER -> FALSE

\* helpers that accept nothing but the variant they are named after
Accepts_exact(kind, val) == kind = "Any" \/ val.t = kind

\* the variants a pop helper accepts (as_int and as_bool give Some, or the
\* match of the helper): `kind` is the helper's expected name, "Any" for the
\* untyped pop
Accepts(kind, val) ==
    CASE kind = "Any" -> TRUE
      [] kind = "Int" -> val.t \in {"Int", "Float", "Bool"}
      [] kind = "Bool" -> val.t \in {"Bool", "Int", "Nil"}
      [] kind = "Str" -> val.t \in {"Str", "Hash"}
      [] OTHER -> val.t = kind

\* what the helper hands to its caller: the cell for pop, the payload otherwise
Payload(kind, val) ==
    CASE kind = "Any" -> val
      [] kind = "Int" -> as_int(val)
      [] kind = "Bool" -> as_bool(val)
      [] OTHER -> val.v

\* vm.rs: VM::pop_int, pop_str, pop_bool, pop_doc, pop_bundle, pop_pack,
\* pop_quotation, pop_list: self.pop()?, then the match on the variant
pop_typed(s, kind) ==
    IF s = <<>> THEN [err |-> StackUnderflow, val |-> 0, stack |-> s]
    ELSE IF Accepts(kind, Last(s))
    THEN [err |-> Ok, val |-> Payload(kind, Last(s)), stack |-> Front(s)]
    ELSE [err |-> TypeError(kind, type_name(Last(s))), val |-> 0, stack |-> Front(s)]

\* the pops a native word starts with, in the order it makes them, each
\* followed by `?`: [err, stack, args], args[1] the first operand popped
RECURSIVE pop_all(_, _, _)
pop_all(s, kinds, got) ==
    IF kinds = <<>> THEN [err |-> Ok, stack |-> s, args |-> got]
    ELSE IF pop_typed(s, Head(kinds)).err # Ok
    THEN [err |-> pop_typed(s, Head(kinds)).err,
          stack |-> pop_typed(s, Head(kinds)).stack, args |-> got]
    ELSE pop_all(Front(s), Tail(kinds), Append(got, Payload(Head(kinds), Last(s))))

\* report_error without the assignment to success
append_error(val, message) ==
    [val EXCEPT !.errors = Append(@, ValidationMessage_new(message))]

\* vm.rs: VM::report_error
report_error(val, message) ==
    [val EXCEPT !.success = FALSE,
                !.errors = Append(@, ValidationMessage_new(message))]

\* report_warning on a fresh accumulator
warn_from_default(val, message) ==
    [ValidationResult_default EXCEPT !.warnings = Append(@, ValidationMessage_new(message))]

\* vm.rs: VM::report_warning
report_warning(val, message) ==
    [val EXCEPT !.warnings = Append(@, ValidationMessage_new(message))]

\* a report that is lost
report_nothing(val, message) == val

\* vm.rs: VM::report_suggestion
report_suggestion(val, message) ==
    [val EXCEPT !.suggestions = Append(@, ValidationMessage_new(message))]

\* reset_validation that leaves the accumulator as it is
no_reset == validation

\* vm.rs: VM::reset_validation
reset_validation == ValidationResult_default

-----------------------------------------------------------------------------
(* builtins.rs: the native words that call no quotation.  A word is the    *)
(* typed pops it starts with (operands), the runtime error it may raise on *)
(* the operands popped (raises), the cells it pushes (one operator for     *)
(* each section of builtins.rs) and what it reports to the accumulator     *)
(* (reports).  `a` holds the operands in pop order: a[1] was the top.      *)

StackWords == {"dup", "drop", "swap", "over", "rot", "nip", "tuck", "depth"}
ArithmeticWords == {"+", "-", "*", "/", "mod", "abs", "negate"}
ComparisonWords == {"=", "<>", "<", ">", "<=", ">="}
LogicWords == {"and", "or", "not", "true", "false", "nil"}
StringWords == {"str-concat", "str-contains?", "str-starts?", "str-ends?",
                "str-split", "str-trim", "str-upper", "str-lower", "str-len"}
ListWords == {"list-new", "list-push", "list-pop", "list-get", "list-len"}
DocWords == {"doc-hash", "doc-type", "doc-path", "doc-content", "doc-version",
             "doc-canonical?", "docs-same-hash?", "docs-same-type?"}
BundleWords == {"bundle-new", "bundle-add", "bundle-docs", "bundle-count",
                "bundle-has-type?", "bundle-get-type"}
PackWords == {"pack-new", "pack-require", "pack-optional", "pack-rule"}
EnforcementWords == {"error!", "warn!", "suggest!", "require!"}
HashWords == {"hash-content"}
DebugWords == {".s", ".v"}

\* the pop_* calls a word starts with, in the order it makes them
operands(fn) ==
    CASE fn \in {"dup", "drop"} -> <<"Any">>
      [] fn \in {"swap", "over", "nip", "tuck", "=", "<>"} -> <<"Any", "Any">>
      [] fn = "rot" -> <<"Any", "Any", "Any">>
      [] fn \in {"+", "-", "*", "/", "mod", "<", ">", "<=", ">="} -> <<"Int", "Int">>
      [] fn \in {"abs", "negate"} -> <<"Int">>
      [] fn \in {"and", "or"} -> <<"Bool", "Bool">>
      [] fn = "not" -> <<"Bool">>
      [] fn \in {"str-concat", "str-contains?", "str-starts?", "str-ends?",
                 "str-split"} -> <<"Str", "Str">>
      [] fn \in {"str-trim", "str-upper", "str-lower", "str-len"} -> <<"Str">>
      [] fn = "list-push" -> <<"Any", "List">>
      [] fn \in {"list-pop", "list-len"} -> <<"List">>
      [] fn = "list-get" -> <<"Int", "List">>
      [] fn \in {"doc-hash", "doc-type", "doc-path", "doc-content", "doc-version",
                 "doc-canonical?"} -> <<"Doc">>
      [] fn \in {"docs-same-hash?", "docs-same-type?"} -> <<"Doc", "Doc">>
      [] fn = "bundle-add" -> <<"Doc", "Bundle">>
      [] fn \in {"bundle-docs", "bundle-count"} -> <<"Bundle">>
      [] fn \in {"bundle-has-type?", "bundle-get-type"} -> <<"Str", "Bundle">>
      [] fn \in {"pack-new", "hash-content", "error!", "warn!", "suggest!"} -> <<"Str">>
      [] fn \in {"pack-require", "pack-optional"} -> <<"Str", "Pack">>
      [] fn = "pack-rule" -> <<"Quotation", "Str", "Pack">>
      [] fn = "require!" -> <<"Str", "Bool">>
      [] OTHER -> <<>>

\* builtin_div, builtin_mod: the divisor is the first operand popped
raises(fn, a) ==
    CASE fn = "/" /\ a[1] = 0 -> RuntimeError("Division by zero")
      [] fn = "mod" /\ a[1] = 0 -> RuntimeError("Modulo by zero")
      [] OTHER -> Ok

\* stack words that push their cells in the opposite order
stack_words_mirrored(fn, r, a) ==
    CASE fn = "dup" -> <<a[1], a[1]>>
      [] fn = "drop" -> <<>>
      [] fn = "swap" -> <<a[2], a[1]>>
      [] fn = "over" -> <<a[2], a[1], a[2]>>
      [] fn = "rot" -> <<a[3], a[1], a[2]>>
      [] fn = "nip" -> <<a[1]>>
      [] fn = "tuck" -> <<a[1], a[2], a[1]>>
      [] fn = "depth" -> <<Value("Int", Len(r))>>

\* builtin_dup .. builtin_depth; `r` is the stack left by the pops
stack_words(fn, r, a) ==
    CASE fn = "dup" -> <<a[1], a[1]>>
      [] fn = "drop" -> <<>>
      [] fn = "swap" -> <<a[1], a[2]>>
      [] fn = "over" -> <<a[2], a[1], a[2]>>
      [] fn = "rot" -> <<a[2], a[1], a[3]>>
      [] fn = "nip" -> <<a[1]>>
      [] fn = "tuck" -> <<a[1], a[2], a[1]>>
      [] fn = "depth" -> <<Value("Int", Len(r))>>

\* builtin_add .. builtin_negate: b = a[1], a = a[2]; the result as an
\* integer of unbounded width
arithmetic(fn, a) ==
    CASE fn = "+" -> a[2] + a[1]
      [] fn = "-" -> a[2] - a[1]
      [] fn = "*" -> a[2] * a[1]
      [] fn = "/" -> TruncDiv(a[2], a[1])
      [] fn = "mod" -> TruncRem(a[2], a[1])
      [] fn = "abs" -> Abs(a[1])
      [] fn = "negate" -> -a[1]

\* the i64 operation overflows: i64::MIN / -1 and i64::MIN % -1 panic in
\* every build, the other operations panic when the build checks overflow
panics(fn, a) ==
    CASE fn \in {"/", "mod"} -> a[2] = i64_MIN /\ a[1] = -1
      [] fn \in {"+", "-", "*", "abs", "negate"} ->
            overflow_checks /\ wrapping(arithmetic(fn, a)) # arithmetic(fn, a)
      [] OTHER -> FALSE

\* the Int pushed: without the overflow check the result wraps
arithmetic_words(fn, a) == <<Value("Int", wrapping(arithmetic(fn, a)))>>

\* a match that also pairs a Str with a Hash of the same text
eq_text(a, b) ==
    /\ a.t \in {"Int", "Str", "Bool", "Hash", "Nil"}
    /\ b.t \in {"Int", "Str", "Bool", "Hash", "Nil"}
    /\ a.t = b.t \/ {a.t, b.t} = {"Str", "Hash"}
    /\ a.v = b.v

\* builtin_eq's match: equal payloads of one variant among these five
eq_match(a, b) ==
    /\ a.t = b.t
    /\ a.t \in {"Int", "Str", "Bool", "Hash", "Nil"}
    /\ a.v = b.v

\* builtin_eq .. builtin_ge; builtin_neq is builtin_eq then builtin_not
comparison_words(fn, a) ==
    CASE fn = "=" -> <<Value("Bool", eq_match(a[2], a[1]))>>
      [] fn = "<>" -> <<Value("Bool", ~as_bool(Value("Bool", eq_match(a[2], a[1]))))>>
      [] fn = "<" -> <<Value("Bool", a[2] < a[1])>>
      [] fn = ">" -> <<Value("Bool", a[2] > a[1])>>
      [] fn = "<=" -> <<Value("Bool", a[2] <= a[1])>>
      [] fn = ">=" -> <<Value("Bool", a[2] >= a[1])>>

\* builtin_and .. builtin_nil
logic_words(fn, a) ==
    CASE fn = "and" -> <<Value("Bool", a[2] /\ a[1])>>
      [] fn = "or" -> <<Value("Bool", a[2] \/ a[1])>>
      [] fn = "not" -> <<Value("Bool", ~a[1])>>
      [] fn = "true" -> <<Value("Bool", TRUE)>>
      [] fn = "false" -> <<Value("Bool", FALSE)>>
      [] fn = "nil" -> <<Value_Nil>>

\* the characters of the texts given to the string words (one lowercase
\* letter, its uppercase, one whitespace), and the texts of up to n of them
Chars == {"a", "A", " "}
RECURSIVE Texts(_)
Texts(n) ==
    IF n = 0 THEN {""}
    ELSE Texts(n - 1) \cup {t \o c : t \in Texts(n - 1), c \in Chars}

\* s.chars().next() and the rest of a non-empty text
uncons(s) == CHOOSE p \in Chars \X Texts(Len(s)) : s = p[1] \o p[2]

\* str::to_uppercase, str::to_lowercase: `to` maps each character
RECURSIVE recase(_, _)
recase(s, to) ==
    IF s = "" THEN "" ELSE to[uncons(s)[1]] \o recase(uncons(s)[2], to)

\* str::trim: the whitespace at both ends is removed
RECURSIVE trim(_)
trim(s) ==
    IF \E r \in Texts(Len(s)) : s = " " \o r
    THEN trim(CHOOSE r \in Texts(Len(s)) : s = " " \o r)
    ELSE IF \E r \in Texts(Len(s)) : s = r \o " "
    THEN trim(CHOOSE r \in Texts(Len(s)) : s = r \o " ")
    ELSE s

\* str::split on a string pattern: the segments between the occurrences of
\* delim, found from the left and not overlapping, empty segments included;
\* an empty delim matches at every character boundary
RECURSIVE split(_, _)
split(s, delim) ==
    IF delim = ""
    THEN IF s = "" THEN <<"", "">>
         ELSE <<"", uncons(s)[1]>> \o Tail(split(uncons(s)[2], delim))
    ELSE IF \E p, r \in Texts(Len(s)) : s = p \o delim \o r
    THEN LET cut == CHOOSE c \in Texts(Len(s)) \X Texts(Len(s)) :
                        /\ s = c[1] \o delim \o c[2]
                        /\ \A p, r \in Texts(Len(s)) :
                              s = p \o delim \o r => Len(c[1]) <= Len(p)
         IN <<cut[1]>> \o split(cut[2], delim)
    ELSE <<s>>

\* builtin_str_concat .. builtin_str_len: the first operand popped is a[1]
\* (b, needle, prefix, suffix, delim), the text it is applied to a[2];
\* s.len() counts bytes, one for each of these characters
string_words(fn, a) ==
    CASE fn = "str-concat" -> <<Value("Str", a[2] \o a[1])>>
      [] fn = "str-contains?" ->
            <<Value("Bool", \E p, r \in Texts(Len(a[2])) : a[2] = p \o a[1] \o r)>>
      [] fn = "str-starts?" ->
            <<Value("Bool", \E r \in Texts(Len(a[2])) : a[2] = a[1] \o r)>>
      [] fn = "str-ends?" ->
            <<Value("Bool", \E p \in Texts(Len(a[2])) : a[2] = p \o a[1])>>
      [] fn = "str-split" ->
            <<Value("List", [n \in 1..Len(split(a[2], a[1])) |->
                                Value("Str", split(a[2], a[1])[n])])>>
      [] fn = "str-trim" -> <<Value("Str", trim(a[1]))>>
      [] fn = "str-upper" ->
            <<Value("Str", recase(a[1], [c \in Chars |-> IF c = "a" THEN "A" ELSE c]))>>
      [] fn = "str-lower" ->
            <<Value("Str", recase(a[1], [c \in Chars |-> IF c = "A" THEN "a" ELSE c]))>>
      [] fn = "str-len" -> <<Value("Int", Len(a[1]))>>

\* builtin_list_new .. builtin_list_len; `as usize` of a negative index is
\* far out of range, so list.get gives None
list_words(fn, a) ==
    CASE fn = "list-new" -> <<Value("List", <<>>)>>
      [] fn = "list-push" -> <<Value("List", Append(a[2], a[1]))>>
      [] fn = "list-pop" ->
            IF a[1] # <<>> THEN <<Value("List", Front(a[1])), Last(a[1])>>
            ELSE <<Value("List", <<>>), Value_Nil>>
      [] fn = "list-get" ->
            IF a[1] >= 0 /\ a[1] < Len(a[2]) THEN <<a[2][a[1] + 1]>>
            ELSE <<Value_Nil>>
      [] fn = "list-len" -> <<Value("List", a[1]), Value("Int", Len(a[1]))>>

\* types.rs: Document::is_canonical
is_canonical(d) == d.canonical_source # "Inferred"

\* a comparison of the contents themselves
same_content(doc1, doc2) == doc1.content = doc2.content

\* builtin_docs_same_hash: doc1.hash == doc2.hash
same_hash(doc1, doc2) == doc1.hash = doc2.hash

\* builtin_doc_hash .. builtin_docs_same_type: doc2 = a[1], doc1 = a[2]
doc_words(fn, a) ==
    CASE fn = "doc-hash" -> <<Value("Hash", a[1].hash)>>
      [] fn = "doc-type" -> <<Value("Str", a[1].document_type)>>
      [] fn = "doc-path" -> <<Value("Str", a[1].path)>>
      [] fn = "doc-content" -> <<Value("Str", a[1].content)>>
      [] fn = "doc-version" ->
            IF a[1].version = <<>> THEN <<Value_Nil>>
            ELSE <<Value("Str", a[1].version[1])>>
      [] fn = "doc-canonical?" -> <<Value("Bool", is_canonical(a[1]))>>
      [] fn = "docs-same-hash?" -> <<Value("Bool", same_hash(a[2], a[1]))>>
      [] fn = "docs-same-type?" ->
            <<Value("Bool", a[2].document_type = a[1].document_type)>>

\* builtin_bundle_new .. builtin_bundle_get_type: the bundle is the last
\* operand popped
bundle_words(fn, a) ==
    CASE fn = "bundle-new" -> <<Value("Bundle", Bundle_new)>>
      [] fn = "bundle-add" -> <<Value("Bundle", Append(a[2], a[1]))>>
      [] fn = "bundle-docs" ->
            <<Value("List", [n \in 1..Len(a[1]) |-> Value("Doc", a[1][n])])>>
      [] fn = "bundle-count" -> <<Value("Bundle", a[1]), Value("Int", Len(a[1]))>>
      [] fn = "bundle-has-type?" ->
            <<Value("Bundle", a[2]), Value("Bool", has_type(a[2], a[1]))>>
      [] fn = "bundle-get-type" ->
            <<Value("Bundle", a[2]),
              IF get_type(a[2], a[1]) # 0 THEN Value("Doc", a[2][get_type(a[2], a[1])])
              ELSE Value_Nil>>

\* types.rs: PackSpec::require
require(pack, doc_type) == [pack EXCEPT !.required = Append(@, doc_type)]

\* types.rs: PackSpec::optional
optional(pack, doc_type) == [pack EXCEPT !.optional = Append(@, doc_type)]

\* types.rs: PackSpec::add_rule
add_rule(pack, name, body) == [pack EXCEPT !.rules = Append(@, Rule(name, body))]

\* builtin_pack_new .. builtin_pack_rule: the pack is the last operand popped
pack_words(fn, a) ==
    CASE fn = "pack-new" -> <<Value("Pack", PackSpec_new(a[1]))>>
      [] fn = "pack-require" -> <<Value("Pack", require(a[2], a[1]))>>
      [] fn = "pack-optional" -> <<Value("Pack", optional(a[2], a[1]))>>
      [] fn = "pack-rule" -> <<Value("Pack", add_rule(a[3], a[2], a[1]))>>

\* builtin_hash_content
hash_words(fn, a) ==
    CASE fn = "hash-content" -> <<Value("Hash", sha256_hex(a[1]))>>

\* the cells a word pushes, in the order it pushes them; the enforcement
\* words push nothing, .s and .v only print
pushes(fn, r, a) ==
    CASE fn \in StackWords -> stack_words(fn, r, a)
      [] fn \in ArithmeticWords -> arithmetic_words(fn, a)
      [] fn \in ComparisonWords -> comparison_words(fn, a)
      [] fn \in LogicWords -> logic_words(fn, a)
      [] fn \in StringWords -> string_words(fn, a)
      [] fn \in ListWords -> list_words(fn, a)
      [] fn \in DocWords -> doc_words(fn, a)
      [] fn \in BundleWords -> bundle_words(fn, a)
      [] fn \in PackWords -> pack_words(fn, a)
      [] fn \in HashWords -> hash_words(fn, a)
      [] OTHER -> <<>>

\* builtin_error .. builtin_require: msg = a[1], cond = a[2]
reports(fn, a, val) ==
    CASE fn = "error!" -> report_error(val, a[1])
      [] fn = "warn!" -> report_warning(val, a[1])
      [] fn = "suggest!" -> report_suggestion(val, a[1])
      [] fn = "require!" -> IF ~a[2] THEN report_error(val, a[1]) ELSE val
      [] OTHER -> val

\* a failure that also clears the accumulator
FailedReset(s, val, e) == [stack |-> s, validation |-> ValidationResult_default, err |-> e]

\* what a native word returns: Ok(()) or Err(e), with the stack and the
\* accumulator it leaves
Done(s, val) == [stack |-> s, validation |-> val, err |-> Ok]
Failed(s, val, e) == [stack |-> s, validation |-> val, err |-> e]

\* a panic is no Err value: the call never returns
Panic == [kind |-> "Panic", a |-> "arithmetic overflow", b |-> ""]

-----------------------------------------------------------------------------
(* builtins.rs: register_builtins, and the dispatch of a native word.      *)
(* The words modelled are those below; the list-iteration words (each,     *)
(* map, filter, reduce) are left out.                                      *)

ControlWords == {"if", "when", "unless", "call"}
ValidateWords == {"bundle-validate", "pack-ship"}

SimpleWords ==
    StackWords \cup ArithmeticWords \cup ComparisonWords \cup LogicWords
        \cup StringWords \cup ListWords \cup DocWords \cup BundleWords
        \cup PackWords \cup EnforcementWords \cup HashWords \cup DebugWords

\* types.rs: WordDef
WordDef_Native(fn) == [kind |-> "Native", fn |-> fn, body |-> <<>>]
WordDef_User(body) == [kind |-> "User", fn |-> "", body |-> body]

register_builtins ==
    [name \in SimpleWords \cup ControlWords \cup ValidateWords |-> WordDef_Native(name)]

\* a define_word that leaves a native entry in place
define_word_protected(dict, name, body) ==
    [n \in DOMAIN dict \cup {name} |->
        IF n = name /\ (n \notin DOMAIN dict \/ dict[n].kind = "User")
        THEN WordDef_User(body) ELSE dict[n]]

\* vm.rs: VM::define_word
define_word(dict, name, body) ==
    [n \in DOMAIN dict \cup {name} |->
        IF n = name THEN WordDef_User(body) ELSE dict[n]]

\* a native word that puts its operands back when a pop fails
CallNativeAtomic(fn, s, val) ==
    LET p == pop_all(s, operands(fn), <<>>) IN
    IF p.err # Ok THEN Failed(s, val, p.err)
    ELSE IF raises(fn, p.args) # Ok THEN Failed(p.stack, val, raises(fn, p.args))
    ELSE IF panics(fn, p.args) THEN Failed(p.stack, val, Panic)
    ELSE Done(p.stack \o pushes(fn, p.stack, p.args), reports(fn, p.args, val))

\* the function a Native entry points to, applied to the VM: its pops, each
\* with `?`, then its own failure if any, then its pushes and reports
CallNative(fn, s, val) ==
    LET p == pop_all(s, operands(fn), <<>>) IN
    IF p.err # Ok THEN Failed(p.stack, val, p.err)
    ELSE IF raises(fn, p.args) # Ok THEN Failed(p.stack, val, raises(fn, p.args))
    ELSE IF panics(fn, p.args) THEN Failed(p.stack, val, Panic)
    ELSE Done(p.stack \o pushes(fn, p.stack, p.args), reports(fn, p.args, val))

-----------------------------------------------------------------------------
(* vm.rs: VM::execute, the scans of a token slice.                         *)

\* the least j >= i with tokens[j] of variant k; Len(tokens) + 1 when none
RECURSIVE FirstFrom(_, _, _)
FirstFrom(tokens, i, k) ==
    IF i > Len(tokens) THEN Len(tokens) + 1
    ELSE IF tokens[i].k = k THEN i
    ELSE FirstFrom(tokens, i + 1, k)

\* a scan that stops at the first QuoteEnd, whatever the nesting
FirstQuoteEnd(tokens, i, depth) ==
    IF FirstFrom(tokens, i, "QuoteEnd") > Len(tokens) THEN 0
    ELSE FirstFrom(tokens, i, "QuoteEnd")

\* the QuoteStart loop from position i at nesting `depth`: the position of
\* the QuoteEnd that brings depth to 0; 0 when the slice ends first
RECURSIVE MatchQuoteEnd(_, _, _)
MatchQuoteEnd(tokens, i, depth) ==
    IF i > Len(tokens) THEN 0
    ELSE LET d == CASE tokens[i].k = "QuoteStart" -> depth + 1
                    [] tokens[i].k = "QuoteEnd" -> depth - 1
                    [] OTHER -> depth
         IN IF d = 0 THEN i ELSE MatchQuoteEnd(tokens, i + 1, d)

\* a DefStart branch that keeps the stack-effect section in the body
ParseDefKeepingSection(tokens, i) ==
    IF i + 1 > Len(tokens) \/ tokens[i + 1].k # "Word"
    THEN [err |-> ParseError("Expected word name after :"), name |-> "",
          body |-> <<>>, next |-> i]
    ELSE IF FirstFrom(tokens, i + 2, "DefEnd") > Len(tokens)
    THEN [err |-> ParseError("Unterminated word definition"), name |-> "",
          body |-> <<>>, next |-> i]
    ELSE [err |-> Ok, name |-> tokens[i + 1].arg,
          body |-> SubSeq(tokens, i + 2, FirstFrom(tokens, i + 2, "DefEnd") - 1),
          next |-> FirstFrom(tokens, i + 2, "DefEnd") + 1]

\* the DefStart branch at position i: [err, name, body, next]
ParseDef(tokens, i) ==
    LET n == i + 1
        bad(e) == [err |-> e, name |-> "", body |-> <<>>, next |-> i]
    IN
    IF n > Len(tokens) \/ tokens[n].k # "Word"
    THEN bad(ParseError("Expected word name after :"))
    ELSE LET p == n + 1
             start == IF p <= Len(tokens) /\ tokens[p].k = "StackEffectStart"
                      THEN FirstFrom(tokens, p, "StackEffectEnd") + 1
                      ELSE p
             e == FirstFrom(tokens, start, "DefEnd")
         IN IF e > Len(tokens)
            THEN bad(ParseError("Unterminated word definition"))
            ELSE [err |-> Ok, name |-> tokens[n].arg,
                  body |-> SubSeq(tokens, start, e - 1), next |-> e + 1]


-----------------------------------------------------------------------------
(* builtins.rs: builtin_bundle_validate, the parts between its calls of    *)
(* the rule bodies.                                                        *)

\* a check of the first required type only
check_first_required(val, docs, required, i) ==
    IF required # <<>> /\ ~has_type(docs, required[1])
    THEN report_error(val, "Missing required document: " \o required[1])
    ELSE val

\* the loop over pack.required from entry i on
RECURSIVE check_required(_, _, _, _)
check_required(val, docs, required, i) ==
    IF i > Len(required) THEN val
    ELSE check_required(
            IF ~has_type(docs, required[i])
            THEN report_error(val, "Missing required document: " \o required[i])
            ELSE val,
            docs, required, i + 1)

\* a rule outcome that drops the error of the body
rule_ignored(val, rule, e) == val

\* what a rule whose body returned `e` leaves in the accumulator
rule_outcome(val, rule, e) ==
    IF e # Ok
    THEN report_error(val, "Rule '" \o rule.name \o "' failed: " \o Display(e))
    ELSE val

\* no pop after a rule
keep_after_rule(s) == s

\* `let _ = vm.pop();` after a rule: an underflow is dropped
pop_after_rule(s) == pop(s).stack

\* the two pushes in the other order
push_result_and_bundle(s, docs, val) ==
    push(push(s, Value("ValidationResult", val)), Value("Bundle", docs))

\* the tail of the function: the bundle, then the snapshot of the accumulator
push_bundle_and_result(s, docs, val) ==
    push(push(s, Value("Bundle", docs)), Value("ValidationResult", val))

-----------------------------------------------------------------------------
(* Frames.  kind "eval" is the execute called by eval, "call" the execute  *)
(* of a user word or of a quotation run by if/when/unless/call, "rule" the *)
(* call_quotation of a rule body inside builtin_bundle_validate; bv holds  *)
(* the locals of that builtin_bundle_validate (bundle, pack, rule index)   *)
(* and, as history, the stack it was called on (before), whether the       *)
(* accumulator was reset again since it started (clean is FALSE then) and  *)
(* whether every rule so far ended with exactly one cell above the cells   *)
(* below the two inputs (tidy), and the accumulator it found (prior).      *)

NoBV == [bundle |-> <<>>, pack |-> PackSpec_new(""), idx |-> 0,
         before |-> <<>>, prior |-> ValidationResult_default,
         clean |-> TRUE, tidy |-> TRUE]

Frame(tokens, kind, bv) == [tokens |-> tokens, i |-> 1, kind |-> kind, bv |-> bv]

NoLastBV == [done |-> FALSE, bundle |-> <<>>, pack |-> PackSpec_new(""),
             before |-> <<>>, prior |-> ValidationResult_default,
             after |-> <<>>, acc |-> ValidationResult_default,
             clean |-> TRUE, tidy |-> TRUE]

\* history of one eval call: the tokens it was given, the source text when
\* the lexer of the model made them, the stack it started
\* on, whether an error was reported to the accumulator since it started
\* (reported) and since the accumulator was last reset (sinceReset)
NoRun == [program |-> <<>>, source |-> <<>>, entry |-> <<>>, reported |-> FALSE,
          sinceReset |-> FALSE]

ErrorReported(r) == [r EXCEPT !.reported = TRUE, !.sinceReset = TRUE]

Top == frames[Len(frames)]
Running == status = "running" /\ err = Ok /\ frames # <<>>
AtToken == Running /\ Top.i <= Len(Top.tokens)
AtEnd == Running /\ Top.i > Len(Top.tokens)
Tok == Top.tokens[Top.i]

\* the `i += 1` that ends an iteration of the loop of the innermost execute
Advance(fs) == [fs EXCEPT ![Len(fs)].i = @ + 1]
JumpTo(fs, j) == [fs EXCEPT ![Len(fs)].i = j]

\* a reset of the accumulator is seen by every bundle-validate in progress
MarkReset(fs) ==
    [n \in DOMAIN fs |->
        IF fs[n].kind = "rule" THEN [fs[n] EXCEPT !.bv.clean = FALSE] ELSE fs[n]]

CanEnter == Len(frames) < MaxFrames

Below(before) == SubSeq(before, 1, Len(before) - 2)

-----------------------------------------------------------------------------
(* vm.rs: VM::new                                                          *)

VM_new ==
    /\ stack = <<>>
    /\ dictionary = register_builtins
    /\ current_bundle = None
    /\ validation = ValidationResult_default
    /\ frames = <<>>
    /\ err = Ok
    /\ status = "idle"
    /\ result = Ok
    /\ evals = 0
    /\ lastBV = NoLastBV
    /\ run = NoRun

Init ==
    /\ VM_new
    /\ overflow_checks \in BOOLEAN
    /\ input = <<>>
    /\ returned = <<>>

-----------------------------------------------------------------------------
(* vm.rs: VM::execute, one action per arm of the match.                    *)

\* Token::Int, Token::Float, Token::Str
ExecLiteral ==
    /\ AtToken
    /\ Tok.k \in {"Int", "Float", "Str"}
    /\ stack' = push(stack, Value(Tok.k, Tok.arg))
    /\ frames' = Advance(frames)
    /\ UNCHANGED <<dictionary, current_bundle, validation, err, status, result,
                   evals, lastBV, run, overflow_checks, lib_vars>>

\* Token::QuoteStart
ExecQuoteStart ==
    /\ AtToken
    /\ Tok.k = "QuoteStart"
    /\ LET j == MatchQuoteEnd(Top.tokens, Top.i + 1, 1) IN
       IF j = 0
       THEN /\ err' = ParseError("Unmatched quotation bracket")
            /\ UNCHANGED <<stack, frames>>
       ELSE /\ stack' = push(stack, Value("Quotation", SubSeq(Top.tokens, Top.i + 1, j - 1)))
            /\ frames' = JumpTo(frames, j + 1)
            /\ err' = Ok
    /\ UNCHANGED <<dictionary, current_bundle, validation, status, result,
                   evals, lastBV, run, overflow_checks, lib_vars>>

\* Token::DefStart
ExecDefStart ==
    /\ AtToken
    /\ Tok.k = "DefStart"
    /\ LET d == ParseDef(Top.tokens, Top.i) IN
       IF d.err # Ok
       THEN /\ err' = d.err
            /\ UNCHANGED <<dictionary, frames>>
       ELSE /\ dictionary' = define_word(dictionary, d.name, d.body)
            /\ frames' = JumpTo(frames, d.next)
            /\ err' = Ok
    /\ UNCHANGED <<stack, current_bundle, validation, status, result, evals, lastBV, run, overflow_checks, lib_vars>>

\* Token::Comment, StackEffectStart, StackEffectEnd, QuoteEnd, DefEnd
ExecSkip ==
    /\ AtToken
    /\ Tok.k \in {"Comment", "StackEffectStart", "StackEffectEnd", "QuoteEnd", "DefEnd"}
    /\ frames' = Advance(frames)
    /\ UNCHANGED <<stack, dictionary, current_bundle, validation, err, status,
                   result, evals, lastBV, run, overflow_checks, lib_vars>>

AtWord == AtToken /\ Tok.k = "Word"
AtNative(fns) ==
    /\ AtWord
    /\ Tok.arg \in DOMAIN dictionary
    /\ dictionary[Tok.arg].kind = "Native"
    /\ dictionary[Tok.arg].fn \in fns

\* an unknown word passed over in silence
SkipUndefined ==
    /\ AtWord
    /\ Tok.arg \notin DOMAIN dictionary
    /\ frames' = Advance(frames)
    /\ UNCHANGED <<stack, dictionary, current_bundle, validation, err, status,
                   result, evals, lastBV, run, overflow_checks, lib_vars>>

\* vm.rs: VM::execute_word, the name is not in the dictionary
ExecUndefined ==
    /\ AtWord
    /\ Tok.arg \notin DOMAIN dictionary
    /\ err' = UndefinedWord(Tok.arg)
    /\ UNCHANGED <<stack, dictionary, current_bundle, validation, frames, status,
                   result, evals, lastBV, run, overflow_checks, lib_vars>>

\* a user word that is refused at the third nested execute
ExecUserLimited ==
    /\ AtWord
    /\ Tok.arg \in DOMAIN dictionary
    /\ dictionary[Tok.arg].kind = "User"
    /\ IF Len(frames) < 3
       THEN /\ frames' = Append(frames, Frame(dictionary[Tok.arg].body, "call", NoBV))
            /\ err' = err
       ELSE /\ frames' = frames
            /\ err' = RuntimeError("Step limit reached")
    /\ UNCHANGED <<stack, dictionary, current_bundle, validation, status,
                   result, evals, lastBV, run, overflow_checks, lib_vars>>

\* vm.rs: VM::execute_word, WordDef::User
ExecUser ==
    /\ AtWord
    /\ Tok.arg \in DOMAIN dictionary
    /\ dictionary[Tok.arg].kind = "User"
    /\ CanEnter
    /\ frames' = Append(frames, Frame(dictionary[Tok.arg].body, "call", NoBV))
    /\ UNCHANGED <<stack, dictionary, current_bundle, validation, err, status,
                   result, evals, lastBV, run, overflow_checks, lib_vars>>

\* a native word whose Bundle result is also stored as the current bundle
ExecNativeStoring ==
    /\ AtNative(SimpleWords)
    /\ LET r == CallNative(dictionary[Tok.arg].fn, stack, validation) IN
       /\ stack' = r.stack
       /\ validation' = r.validation
       /\ err' = IF r.err = Panic THEN Ok ELSE r.err
       /\ status' = IF r.err = Panic THEN "panicked" ELSE status
       /\ frames' = IF r.err = Ok THEN Advance(frames) ELSE frames
       /\ run' = IF r.validation.errors # validation.errors
                 THEN ErrorReported(run) ELSE run
       /\ current_bundle' = IF r.err = Ok /\ r.stack # <<>> /\ Last(r.stack).t = "Bundle"
                            THEN Some(Last(r.stack).v) ELSE current_bundle
    /\ UNCHANGED <<dictionary, result, evals, lastBV, overflow_checks, lib_vars>>

\* vm.rs: VM::execute_word, WordDef::Native of a word that calls no quotation
ExecNative ==
    /\ AtNative(SimpleWords)
    /\ LET r == CallNative(dictionary[Tok.arg].fn, stack, validation) IN
       /\ stack' = r.stack
       /\ validation' = r.validation
       /\ err' = IF r.err = Panic THEN Ok ELSE r.err
       /\ status' = IF r.err = Panic THEN "panicked" ELSE status
       /\ frames' = IF r.err = Ok THEN Advance(frames) ELSE frames
       /\ run' = IF r.validation.errors # validation.errors
                 THEN ErrorReported(run) ELSE run
    /\ UNCHANGED <<dictionary, current_bundle, result, evals, lastBV, overflow_checks, lib_vars>>


\* a Quotation operand, then a Bool operand (builtin_when, builtin_unless)
PopBodyCond(s) ==
    LET body == pop_typed(s, "Quotation") IN
    IF body.err # Ok
    THEN [err |-> body.err, stack |-> body.stack, body |-> <<>>, cond |-> FALSE]
    ELSE LET cond == pop_typed(body.stack, "Bool") IN
         IF cond.err # Ok
         THEN [err |-> cond.err, stack |-> cond.stack, body |-> <<>>, cond |-> FALSE]
         ELSE [err |-> Ok, stack |-> cond.stack, body |-> body.val, cond |-> cond.val]

\* the operands popped; `taken` says whether `body` is called
ControlStep(p, taken) ==
    /\ stack' = p.stack
    /\ err' = p.err
    /\ IF p.err # Ok THEN frames' = frames
       ELSE IF taken THEN CanEnter /\ frames' = Append(frames, Frame(p.body, "call", NoBV))
       ELSE frames' = Advance(frames)
    /\ UNCHANGED <<dictionary, current_bundle, validation, status, result,
                   evals, lastBV, run, overflow_checks, lib_vars>>

\* builtin_if taking the cell on top for the branch of a true condition
ExecIfTopFirst ==
    /\ AtNative({"if"})
    /\ LET e == pop_typed(stack, "Quotation") IN
       IF e.err # Ok
       THEN ControlStep([err |-> e.err, stack |-> e.stack, body |-> <<>>], FALSE)
       ELSE LET p == PopBodyCond(e.stack) IN
            ControlStep([err |-> p.err, stack |-> p.stack,
                         body |-> IF p.cond THEN e.val ELSE p.body], TRUE)

\* builtins.rs: builtin_if
ExecIf ==
    /\ AtNative({"if"})
    /\ LET e == pop_typed(stack, "Quotation") IN
       IF e.err # Ok
       THEN ControlStep([err |-> e.err, stack |-> e.stack, body |-> <<>>], FALSE)
       ELSE LET p == PopBodyCond(e.stack) IN
            ControlStep([err |-> p.err, stack |-> p.stack,
                         body |-> IF p.cond THEN p.body ELSE e.val], TRUE)

\* builtins.rs: builtin_when
ExecWhen ==
    /\ AtNative({"when"})
    /\ LET p == PopBodyCond(stack) IN ControlStep(p, p.cond)

\* builtins.rs: builtin_unless
ExecUnless ==
    /\ AtNative({"unless"})
    /\ LET p == PopBodyCond(stack) IN ControlStep(p, ~p.cond)

\* builtins.rs: builtin_call
ExecCall ==
    /\ AtNative({"call"})
    /\ LET q == pop_typed(stack, "Quotation") IN
       ControlStep([err |-> q.err, stack |-> q.stack, body |-> q.val], TRUE)

\* builtins.rs: builtin_bundle_validate (and builtin_pack_ship, which calls
\* it) up to the call of the first rule body, or to its end for a pack
\* without rules
ExecBundleValidate ==
    /\ AtNative(ValidateWords)
    /\ LET pack == pop_typed(stack, "Pack") IN
       IF pack.err # Ok
       THEN /\ stack' = pack.stack
            /\ err' = pack.err
            /\ UNCHANGED <<validation, frames, lastBV, run, overflow_checks, lib_vars>>
       ELSE LET bundle == pop_typed(pack.stack, "Bundle") IN
            IF bundle.err # Ok
            THEN /\ stack' = bundle.stack
                 /\ err' = bundle.err
                 /\ UNCHANGED <<validation, frames, lastBV, run, overflow_checks, lib_vars>>
            ELSE LET docs == bundle.val
                     p == pack.val
                     val == check_required(reset_validation, docs, p.required, 1)
                 IN
                 /\ err' = Ok
                 /\ validation' = val
                 /\ run' = [run EXCEPT !.reported = @ \/ val.errors # <<>>,
                                       !.sinceReset = val.errors # <<>>]
                 /\ IF p.rules = <<>>
                    THEN /\ stack' = push_bundle_and_result(bundle.stack, docs, val)
                         /\ frames' = Advance(MarkReset(frames))
                         /\ lastBV' = [done |-> TRUE, bundle |-> docs, pack |-> p,
                                       before |-> stack, prior |-> validation,
                                       after |-> stack', acc |-> val,
                                       clean |-> TRUE, tidy |-> TRUE]
                    ELSE /\ CanEnter
                         /\ stack' = push(bundle.stack, Value("Bundle", docs))
                         /\ frames' = Append(MarkReset(frames),
                                Frame(p.rules[1].body, "rule",
                                      [bundle |-> docs, pack |-> p, idx |-> 1,
                                       before |-> stack, prior |-> validation,
                                       clean |-> TRUE, tidy |-> TRUE]))
                         /\ UNCHANGED lastBV
    /\ UNCHANGED <<dictionary, current_bundle, status, result, evals, overflow_checks, lib_vars>>

\* builtin_bundle_validate from the return of a rule body (with `e`) to the
\* call of the next one, or to its end after the last
RuleEnd(e) ==
    LET bv == Top.bv
        rules == bv.pack.rules
        val == rule_outcome(validation, rules[bv.idx], e)
        s == pop_after_rule(stack)
        tidy == /\ bv.tidy
                /\ stack # <<>>
                /\ Front(stack) = Below(bv.before)
    IN
    /\ err' = Ok
    /\ validation' = val
    /\ run' = IF e # Ok THEN ErrorReported(run) ELSE run
    /\ IF bv.idx < Len(rules)
       THEN /\ stack' = push(s, Value("Bundle", bv.bundle))
            /\ frames' = [frames EXCEPT ![Len(frames)] =
                            Frame(rules[bv.idx + 1].body, "rule",
                                  [bv EXCEPT !.idx = @ + 1, !.tidy = tidy])]
            /\ UNCHANGED lastBV
       ELSE /\ stack' = push_bundle_and_result(s, bv.bundle, val)
            /\ frames' = Advance(Front(frames))
            /\ lastBV' = [done |-> TRUE, bundle |-> bv.bundle, pack |-> bv.pack,
                          before |-> bv.before, prior |-> bv.prior,
                          after |-> stack', acc |-> val,
                          clean |-> bv.clean, tidy |-> tidy]
    /\ UNCHANGED <<dictionary, current_bundle, status, result, evals, overflow_checks, lib_vars>>

\* the rule body returned Ok
ReturnRule == AtEnd /\ Top.kind = "rule" /\ RuleEnd(Ok)

\* the rule body returned Err(e): `if let Err(e) = vm.call_quotation(..)`
CatchRule ==
    /\ status = "running" /\ err # Ok /\ frames # <<>>
    /\ Top.kind = "rule"
    /\ RuleEnd(err)

\* execute of a user word or quotation returned Ok to the native that called it
ReturnCall ==
    /\ AtEnd
    /\ Top.kind = "call"
    /\ frames' = Advance(Front(frames))
    /\ UNCHANGED <<stack, dictionary, current_bundle, validation, err, status,
                   result, evals, lastBV, run, overflow_checks, lib_vars>>

\* the `?` of a caller that is not builtin_bundle_validate: the error goes up
UnwindCall ==
    /\ status = "running" /\ err # Ok /\ frames # <<>>
    /\ Top.kind = "call"
    /\ frames' = Front(frames)
    /\ UNCHANGED <<stack, dictionary, current_bundle, validation, err, status,
                   result, evals, lastBV, run, overflow_checks, lib_vars>>

\* vm.rs: VM::eval returns Ok
ReturnEval ==
    /\ AtEnd
    /\ Top.kind = "eval"
    /\ frames' = <<>>
    /\ status' = "idle"
    /\ result' = Ok
    /\ UNCHANGED <<stack, dictionary, current_bundle, validation, err, evals, lastBV, run, overflow_checks, lib_vars>>

\* vm.rs: VM::eval returns the error
UnwindEval ==
    /\ status = "running" /\ err # Ok /\ frames # <<>>
    /\ Top.kind = "eval"
    /\ frames' = <<>>
    /\ status' = "idle"
    /\ result' = err
    /\ err' = Ok
    /\ UNCHANGED <<stack, dictionary, current_bundle, validation, evals, lastBV, run, overflow_checks, lib_vars>>


-----------------------------------------------------------------------------
(* The host: what it pushes, loads and evaluates.                          *)

README == Document("README", "# readme")
LICENSE == Document("LICENSE", "MIT")
\* a document as the host may hand it over in a bundle: the bundle is
\* deserialized as it is, and this one carries the hash of an earlier content
README2 == [Document("README", "# second") EXCEPT !.hash = sha256_hex("# readme")]

HostBundles == {<<>>, <<README>>, <<README, LICENSE>>, <<README, LICENSE, README2>>}

\* cells the host leaves under the bundle
HostCells == {Value("Int", 7)}

\* rule bodies, named by what they do to the clone of the bundle and to the
\* cells below it
HostRuleBodies ==
    [keep |-> <<>>,
     drop |-> <<W("drop")>>,
     drop2 |-> <<W("drop"), W("drop")>>,
     dup |-> <<W("dup")>>,
     err |-> <<S("bad bundle"), W("error!")>>,
     undef |-> <<W("nope"), S("unreached"), W("error!")>>,
     div |-> <<I(1), I(0), W("/")>>,
     deep |-> <<T("QuoteStart"), W("drop"), W("drop"), W("drop"), T("QuoteEnd"),
                W("call")>>,
     nested |-> <<S("inner"), W("pack-new"), W("pack-ship"), W("drop")>>,
     count |-> <<W("bundle-count"), I(2), W(">="), S("fewer than two documents"),
                 W("require!")>>]

HostRule(name) == Rule(name, HostRuleBodies[name])

\* no rule, each rule alone, and some pairs
HostRuleLists ==
    {<<>>} \cup {<<HostRule(n)>> : n \in DOMAIN HostRuleBodies}
           \cup {<<HostRule(n1), HostRule(n2)>> :
                    n1 \in {"undef", "err", "drop", "nested"},
                    n2 \in {"err", "undef", "keep"}}
           \cup {<<HostRule("err"), HostRule("nested")>>}

HostRequired == {<<>>, <<"README">>, <<"LICENSE">>, <<"LICENSE", "CHANGELOG">>}

HostPacks ==
    {[name |-> "pack", required |-> req, optional |-> <<>>, rules |-> rules] :
        req \in HostRequired, rules \in HostRuleLists}

\* programs run on a stack that holds no pack
Programs ==
    { <<I(5), I(3), W("+")>>,
      <<S("Missing README"), W("error!")>>,
      <<T("DefStart"), W("square"), W("dup"), W("*"), T("DefEnd"), I(7), W("square")>>,
      <<I(5), T("QuoteStart"), W("dup"), W("*"), T("QuoteEnd"), W("call")>>,
      <<S("README"), W("pack-new"), S("README"), W("pack-require"), W("swap"),
        W("pack-ship")>>,
      <<S("README"), W("pack-new"), S("README"), W("pack-require"), W("pack-ship")>>,
      <<S("README"), W("pack-new"), S("LICENSE"), W("pack-require"), W("swap"),
        W("pack-ship")>>,
      <<S("README"), W("pack-new"), S("LICENSE"), W("pack-require"), W("pack-ship")>>,
      <<S("w"), W("warn!"), S("s"), W("suggest!"), W("true"), S("held"), W("require!"),
        W("false"), S("broken"), W("require!"), S("w2"), W("warn!")>>,
      <<S("e1"), W("error!"), W("nope"), S("e2"), W("error!")>>,
      <<S("w1"), W("warn!"), I(1), I(0), W("/"), S("e2"), W("error!")>>,
      <<W("drop"), W("drop"), I(1)>>,
      <<I(4), T("StackEffectStart"), I(1), W("dup"), T("StackEffectEnd")>>,
      <<T("QuoteStart"), T("QuoteEnd"), W("dup"), W("="), W("list-new"), W("dup"),
        W("<>"), W("bundle-new"), W("dup"), W("="), S("p"), W("pack-new"),
        W("dup"), W("="), W("nil"), W("nil"), W("="), I(1), S("a"), W("="),
        W("true"), I(1), W("="), S("a"), S("a"), W("<>"), I(1), I(2), W("=")>>,
      <<S("README"), W("bundle-get-type"), W("dup"), W("="), W("drop"),
        W("bundle-new"), S("p"), W("pack-new"), W("bundle-validate"), W("dup"),
        W("=")>>,
      <<I(1), I(2), I(3), W("over"), W("over")>>,
      <<I(1), I(2), I(3), W("dup"), W("rot"), W("dup"), W("rot"), W("drop")>>,
      <<I(1), I(2), I(2), W("over"), W("over")>>,
      <<I(1), I(2), I(2), W("dup"), W("rot"), W("dup"), W("rot"), W("drop")>>,
      <<I(3), W("over"), W("over")>>,
      <<I(3), W("dup"), W("rot"), W("dup"), W("rot"), W("drop")>>,
      <<T("DefStart"), W("square"), W("dup"), W("*"), T("DefEnd"), I(11), W("square")>>,
      <<T("DefStart"), W("square"), W("dup"), W("*"), T("DefEnd"), I(i64_MAX), W("square")>>,
      <<T("DefStart"), W("square"), W("dup"), W("*"), T("DefEnd"), I(i64_MIN), W("square")>>,
      <<T("QuoteStart"), W("nope"), T("QuoteEnd"), W("drop"),
        T("DefStart"), W("g"), W("nope"), T("DefEnd"),
        T("DefStart"), W("k"), W("h"), T("DefEnd"),
        T("DefStart"), W("h"), I(1), T("DefEnd"), W("k")>>,
      <<I(1), I(2), I(3), W("rot"), W("tuck"), W("over"), W("nip"), W("swap"),
        W("dup"), W("drop"), W("depth")>>,
      <<I(7), I(2), W("+"), I(3), W("-"), I(4), W("*"), I(5), W("/"), I(3),
        W("mod"), W("negate"), W("abs")>>,
      <<I(-7), I(2), W("/"), I(-7), I(2), W("mod"), W("true"), I(2), W("+")>>,
      <<I(i64_MAX), I(1), W("+")>>,
      <<I(i64_MIN), I(1), W("-")>>,
      <<I(i64_MIN), W("negate")>>,
      <<I(i64_MIN), W("abs")>>,
      <<I(i64_MIN), I(-1), W("/")>>,
      <<I(i64_MIN), I(-1), W("mod")>>,
      <<I(5), I(0), W("mod"), I(1)>>,
      <<S("README"), W("bundle-get-type"), W("bundle-add")>>,
      <<W("bundle-docs"), W("list-pop"), W("swap"), W("list-pop"), W("drop"),
        W("list-pop"), W("nip"), W("docs-same-hash?")>>,
      <<S("README"), W("bundle-get-type"), W("swap"), S("LICENSE"),
        W("bundle-get-type"), W("nip"), W("over"), W("over"), W("docs-same-hash?"),
        W("swap"), W("drop"), W("swap"), W("dup"), W("docs-same-hash?")>>,
      <<W("bundle-docs"), W("list-pop"), W("swap"), W("list-pop"), W("swap"),
        W("list-pop"), W("nip"), W("bundle-new"), W("swap"), W("bundle-add"),
        W("swap"), W("bundle-add"), W("over"), W("bundle-add"), W("swap"),
        W("bundle-add"), W("bundle-count"), W("swap"), S("README"),
        W("bundle-get-type"), W("swap"), W("bundle-docs")>>,
      <<S("LICENSE"), W("bundle-has-type?"), W("swap"), S("LICENSE"),
        W("bundle-get-type")>>,
      <<S("NOTES"), W("bundle-has-type?"), W("swap"), S("NOTES"),
        W("bundle-get-type")>>,
      <<Token("Float", 15), W("negate"), Token("Float", -19), W("negate"),
        W("true"), W("negate"), W("false"), W("abs"),
        Token("Float", 10 * i64_MAX + 15), W("abs")>>,
      <<S("a"), W("negate")>>,
      <<W("nil"), W("abs")>>,
      <<W("negate")>>,
      <<I(0), W("not"), I(3), W("not"), W("nil"), W("not"), W("true"), W("not"),
        S("a"), W("not")>>,
      <<Token("Float", 15), W("not")>>,
      <<S("aA"), W("str-len"), S("a"), W("hash-content"), W("str-len"),
        I(1), W("str-len")>>,
      <<W("str-len")>>,
      <<W("not")>>,
      <<I(1), I(2), W("<"), I(2), I(1), W(">"), W("and"), I(3), I(3), W("<="),
        W("or"), W("not"), I(4), I(3), W(">="), W("true"), W("="), W("false"),
        W("<>"), W("nil"), W("nil"), W("=")>>,
      <<S("a A"), S(" "), W("str-split"), W("list-len"), W("drop"), W("list-pop"),
        W("str-lower"), S("a"), W("str-starts?"), W("drop"), W("drop"), S(" aA"),
        W("str-trim"), W("str-upper"), S("A"), W("str-concat"), W("str-len"),
        S("aA "), S("A "), W("str-ends?"), S("aA "), S("Aa"), W("str-contains?")>>,
      <<S("aA"), S(""), W("str-split"), S("aaa"), S("aa"), W("str-split")>>,
      <<W("list-new"), W("list-pop"), W("drop"), I(5), W("list-push"), S("x"),
        W("list-push"), W("list-len"), W("drop"), I(1), W("list-get"),
        W("list-new"), I(0), W("list-get"), W("list-new"), I(3), W("list-push"),
        I(-1), W("list-get")>>,
      <<S("README"), W("bundle-has-type?"), W("drop"), S("README"),
        W("bundle-get-type"), W("bundle-new"), W("swap"), W("bundle-add"),
        W("bundle-count"), W("drop"), W("bundle-docs")>>,
      <<S("p"), W("pack-new"), S("README"), W("pack-require"), S("NOTES"),
        W("pack-optional"), S("a"), W("hash-content"), S("a"), W("hash-content"),
        W("="), S("sha256:a"), S("a"), W("hash-content"), W("=")>>,
      <<Token("Float", 15), I(2), W("+"), Token("Float", -15), W("abs"),
        Token("Float", 15), Token("Float", 15), W("=")>>,
      <<S("a"), I(1), W("+"), I(2)>>,
      <<T("QuoteStart"), I(1), W("nope"), I(2), T("QuoteEnd"), W("call"), I(3)>>,
      <<T("DefStart"), W("f"), S("in f"), W("warn!"), W("nope"), T("DefEnd"),
        W("f"), I(2)>>,
      <<W("true"), T("QuoteStart"), S("t"), W("warn!"), T("QuoteEnd"),
        T("QuoteStart"), S("e"), W("error!"), T("QuoteEnd"), W("if")>>,
      <<I(0), T("QuoteStart"), S("t"), W("warn!"), T("QuoteEnd"),
        T("QuoteStart"), S("e"), W("error!"), T("QuoteEnd"), W("if"),
        S("after"), W("suggest!")>>,
      <<W("nil"), T("QuoteStart"), S("u"), W("error!"), T("QuoteEnd"), W("unless"),
        I(1), T("QuoteStart"), S("n"), W("error!"), T("QuoteEnd"), W("unless"),
        W("true"), T("QuoteStart"), S("w"), W("warn!"), T("QuoteEnd"), W("when"),
        W("false"), T("QuoteStart"), S("x"), W("warn!"), T("QuoteEnd"), W("when")>>,
      <<S("early"), W("error!"), W("bundle-new"), S("p"), W("pack-new"),
        W("bundle-validate"), S("late"), W("warn!")>>,
      <<W("bundle-new"), S("p"), W("pack-new"), S("README"), W("pack-require"),
        S("r"), T("QuoteStart"), W("drop"), T("QuoteEnd"), W("pack-rule"),
        W("bundle-validate"), S("late"), W("error!")>>,
      <<T("QuoteStart"), I(1), T("QuoteStart"), I(2), T("QuoteEnd"), T("QuoteEnd"),
        T("QuoteStart"), I(3)>>,
      <<T("DefStart"), W("inc"), T("StackEffectStart"), W("a"), Token("Comment", "-- b )"),
        T("StackEffectEnd"), I(1), W("+"), T("DefEnd"), I(4), W("inc"),
        Token("Comment", "-- done"), T("QuoteEnd"), T("DefEnd"), T("StackEffectStart"),
        T("StackEffectEnd")>>,
      <<I(1), T("DefStart"), W("g"), I(2)>>,
      <<I(1), T("DefStart"), I(2), T("DefEnd")>>,
      <<T("DefStart"), W("f"), W("f"), T("DefEnd"), W("f")>>,
      <<T("QuoteStart"), W("dup"), W("call"), T("QuoteEnd"), W("dup"), W("call")>>,
      <<T("DefStart"), W("w"), W("dup"), T("DefEnd"),
        T("QuoteStart"), W("dup"), T("QuoteEnd"),
        T("DefStart"), W("dup"), I(9), T("DefEnd"), W("call"), W("w")>>,
      <<I(1), W("swap")>>,
      <<T("DefStart"), W("g"), I(1), T("DefEnd"), I(5), S("m"), W("warn!"),
        S("a"), I(1), W("+")>> }

\* programs run on a stack whose top is a pack, above its bundle
ShipPrograms ==
    { <<W("bundle-validate")>>,
      <<S("pre"), W("error!"), S("prew"), W("warn!"), S("pres"), W("suggest!"),
        W("pack-ship")>> }

\* programs of the later eval calls on the same VM
FollowUpPrograms ==
    { <<S("later"), W("error!")>>,
      <<W("depth"), W("nope")>> }

IsSetupCell(val) == val.t \notin {"Bundle", "Pack"}

\* vm.rs: VM::push called by the host, for a cell under the bundle
Push(val) ==
    /\ status = "idle" /\ evals = 0
    /\ Len(stack) < MaxBelow
    /\ \A n \in 1..Len(stack) : IsSetupCell(stack[n])
    /\ stack' = push(stack, val)
    /\ UNCHANGED <<dictionary, current_bundle, validation, frames, err, status,
                   result, evals, lastBV, run, overflow_checks, lib_vars>>

\* vm.rs: VM::push called by the host, for a pack above the loaded bundle
PushPack(p) ==
    /\ status = "idle" /\ evals = 0
    /\ stack # <<>> /\ Last(stack).t = "Bundle"
    /\ stack' = push(stack, Value("Pack", p))
    /\ UNCHANGED <<dictionary, current_bundle, validation, frames, err, status,
                   result, evals, lastBV, run, overflow_checks, lib_vars>>

\* vm.rs: VM::load_bundle
load_bundle(docs) ==
    /\ status = "idle" /\ evals = 0
    /\ ~current_bundle.some
    /\ current_bundle' = Some(docs)
    /\ stack' = push(stack, Value("Bundle", docs))
    /\ UNCHANGED <<dictionary, validation, frames, err, status, result, evals, lastBV, run, overflow_checks, lib_vars>>

\* vm.rs: VM::reset_validation called by the host
ResetValidation ==
    /\ status = "idle" /\ evals > 0
    /\ validation' = reset_validation
    /\ run' = [run EXCEPT !.sinceReset = FALSE]
    /\ UNCHANGED <<stack, dictionary, current_bundle, frames, err, status, result,
                   evals, lastBV, overflow_checks, lib_vars>>

\* an eval that starts on a fresh accumulator
eval_fresh(tokens) ==
    /\ status = "idle" /\ evals < MaxEvals
    /\ IF evals > 0 THEN tokens \in FollowUpPrograms
       ELSE IF stack # <<>> /\ Last(stack).t = "Pack" THEN tokens \in ShipPrograms
       ELSE tokens \in Programs
    /\ status' = "running"
    /\ frames' = <<Frame(tokens, "eval", NoBV)>>
    /\ evals' = evals + 1
    /\ validation' = reset_validation
    /\ run' = [program |-> tokens, source |-> <<>>, entry |-> stack, reported |-> FALSE,
               sinceReset |-> FALSE]
    /\ UNCHANGED <<stack, dictionary, current_bundle, err, result, lastBV,
                   overflow_checks, lib_vars>>

\* vm.rs: VM::eval, after the lexer gave `tokens`
eval(tokens) ==
    /\ status = "idle" /\ evals < MaxEvals
    /\ IF evals > 0 THEN tokens \in FollowUpPrograms
       ELSE IF stack # <<>> /\ Last(stack).t = "Pack" THEN tokens \in ShipPrograms
       ELSE tokens \in Programs
    /\ status' = "running"
    /\ frames' = <<Frame(tokens, "eval", NoBV)>>
    /\ evals' = evals + 1
    /\ run' = [program |-> tokens, source |-> <<>>, entry |-> stack, reported |-> FALSE,
               sinceReset |-> FALSE]
    /\ UNCHANGED <<stack, dictionary, current_bundle, validation, err, result, lastBV,
                   overflow_checks, lib_vars>>


-----------------------------------------------------------------------------
(* Properties of the validation accumulator.                               *)

Consistent(val) == val.success = (val.errors = <<>>)

\* C1: in every reachable state the accumulator and every ValidationResult
\* cell on the stack have success = (errors is empty).
C1_SuccessIffNoErrors ==
    /\ Consistent(validation)
    /\ \A n \in 1..Len(stack) :
          stack[n].t = "ValidationResult" => Consistent(stack[n].v)

\* C1 witness: errors were reported and a failed result lies on the stack
C1_Witness ==
    /\ validation.errors # <<>>
    /\ stack # <<>>
    /\ Last(stack).t = "ValidationResult"
    /\ Last(stack).v.errors # <<>>

\* C2 as stated: once an error was reported during a run, success is false
\* for the rest of that run, whatever is executed afterwards.
C2_LatchedForTheRun ==
    (status = "running" /\ run.reported) => ~validation.success

\* C2 amended: once an error was reported, success is false as long as no
\* bundle-validate or pack-ship (and no reset_validation of the host) has
\* reset the accumulator since that report.
C2_LatchedUntilReset == run.sinceReset => ~validation.success

\* C2 witness: an error was reported by require! and a warn! ran after it
C2_Witness ==
    /\ status = "running"
    /\ run.sinceReset
    /\ validation.errors # <<>>
    /\ Len(validation.warnings) = 2

\* the operands of the enforcement word at the current token are well typed
WellTypedMessage ==
    /\ stack # <<>>
    /\ Last(stack).t \in {"Str", "Hash"}
    /\ dictionary[Tok.arg].fn = "require!" =>
          /\ Len(stack) >= 2
          /\ stack[Len(stack) - 1].t \in {"Bool", "Int", "Nil"}

\* the accumulator after the enforcement word at the current token
AfterMessage ==
    LET fn == dictionary[Tok.arg].fn
        msg == ValidationMessage_new(Last(stack).v)
        failed == [validation EXCEPT !.success = FALSE, !.errors = Append(@, msg)]
    IN CASE fn = "error!" -> failed
         [] fn = "warn!" -> [validation EXCEPT !.warnings = Append(@, msg)]
         [] fn = "suggest!" -> [validation EXCEPT !.suggestions = Append(@, msg)]
         [] fn = "require!" ->
                IF as_bool(stack[Len(stack) - 1]) THEN validation ELSE failed

\* C3: error!, warn!, suggest! and require! on well-typed operands return
\* Ok, append their message to the list they report to (require! when its
\* condition is false), take their operands off the stack, and execution
\* goes on with the next token.
C3_MessagesDoNotAbort ==
    [][ (AtNative(EnforcementWords) /\ WellTypedMessage) =>
            /\ err' = Ok
            /\ validation' = AfterMessage
            /\ frames' = Advance(frames)
            /\ stack' = SubSeq(stack, 1, Len(stack) -
                           (IF dictionary[Tok.arg].fn = "require!" THEN 2 ELSE 1))
      ]_vars

\* C3 witness: the three lists hold a message and a next token is due
C3_Witness ==
    /\ AtToken
    /\ validation.errors # <<>>
    /\ validation.warnings # <<>>
    /\ validation.suggestions # <<>>

IsPrefix(s, t) == Len(s) <= Len(t) /\ SubSeq(t, 1, Len(s)) = s

\* C4: the step that raises an execution error changes neither the
\* accumulator nor the dictionary, executes no further token and only takes
\* the operands it popped (at most three) off the stack; from then on, in
\* every frame that is not a rule body of bundle-validate, the error is
\* handed to the caller with stack, accumulator and dictionary untouched,
\* and eval returns that same error.
C4_ErrorAborts ==
    [][ /\ (err = Ok /\ err' # Ok) =>
              /\ validation' = validation
              /\ dictionary' = dictionary
              /\ frames' = frames
              /\ IsPrefix(stack', stack)
              /\ Len(stack) - Len(stack') <= 3
        /\ (err # Ok /\ frames # <<>> /\ Top.kind # "rule") =>
              /\ stack' = stack
              /\ validation' = validation
              /\ dictionary' = dictionary
              /\ IF Top.kind = "eval"
                 THEN frames' = <<>> /\ result' = err /\ status' = "idle"
                 ELSE frames' = Front(frames) /\ err' = err
      ]_vars

\* C4 witness: eval returned the error raised inside a user word; the
\* warning reported before it and the cells of the stack are still there
C4_Witness ==
    /\ status = "idle"
    /\ result = UndefinedWord("nope")
    /\ validation.warnings = <<ValidationMessage_new("in f")>>
    /\ stack # <<>>

-----------------------------------------------------------------------------
(* Properties of bundle-validate.                                          *)

RECURSIVE IsSubseq(_, _)
IsSubseq(a, b) ==
    IF a = <<>> THEN TRUE
    ELSE IF b = <<>> THEN FALSE
    ELSE IF Head(a) = Head(b) THEN IsSubseq(Tail(a), Tail(b))
    ELSE IsSubseq(a, Tail(b))

\* one message for each required type the bundle lacks, in the order of required
MissingRequired(docs, required) ==
    LET lacks(ty) == \A n \in 1..Len(docs) : docs[n].document_type # ty
        missing == SelectSeq(required, lacks)
    IN [n \in 1..Len(missing) |->
            ValidationMessage_new("Missing required document: " \o missing[n])]

\* C5 as stated: the errors of the result of every bundle-validate that
\* returned hold, in the order of pack.required, the message "Missing
\* required document: <t>" of each required type t the bundle lacks.
C5_MissingRequiredReported ==
    lastBV.done =>
        IsSubseq(MissingRequired(lastBV.bundle, lastBV.pack.required),
                 Last(lastBV.after).v.errors)

\* C5 amended: when no rule of the pack ran a bundle-validate or pack-ship
\* of its own, the errors of the result begin with those messages, in the
\* order of pack.required; the errors of the rules come after them.
C5_MissingRequiredFirst ==
    (lastBV.done /\ lastBV.clean) =>
        IsPrefix(MissingRequired(lastBV.bundle, lastBV.pack.required),
                 Last(lastBV.after).v.errors)

\* C5 witness: a pack with a rule, two required types lacking in a bundle
\* that is not empty, and a rule error after the two messages
C5_Witness ==
    /\ lastBV.done /\ lastBV.clean
    /\ lastBV.bundle # <<>>
    /\ lastBV.pack.required = <<"LICENSE", "CHANGELOG">>
    /\ lastBV.pack.rules # <<>>
    /\ Len(Last(lastBV.after).v.errors) > 2

\* C6: an error raised by a rule body is turned into the validation error
\* "Rule '<name>' failed: <err>"; bundle-validate goes on with the next
\* rule, if any, on a fresh clone of the bundle, and otherwise returns Ok to
\* its caller with the result on top of the stack.
C6_RuleErrorCaught ==
    [][ (status = "running" /\ err # Ok /\ frames # <<>> /\ Top.kind = "rule") =>
            LET bv == Top.bv
                rules == bv.pack.rules
                text == "Rule '" \o rules[bv.idx].name \o "' failed: " \o Display(err)
            IN
            /\ err' = Ok
            /\ validation'.errors = Append(validation.errors, ValidationMessage_new(text))
            /\ ~validation'.success
            /\ IF bv.idx < Len(rules)
               THEN /\ Len(frames') = Len(frames)
                    /\ frames'[Len(frames')].kind = "rule"
                    /\ frames'[Len(frames')].tokens = rules[bv.idx + 1].body
                    /\ frames'[Len(frames')].i = 1
                    /\ frames'[Len(frames')].bv.idx = bv.idx + 1
                    /\ Last(stack') = Value("Bundle", bv.bundle)
               ELSE /\ frames' = Advance(Front(frames))
                    /\ Last(stack') = Value("ValidationResult", validation')
      ]_vars

\* C6 witness: the first of two rules failed on an undefined word and the
\* second one still reported its own error
C6_Witness ==
    /\ lastBV.done
    /\ lastBV.pack.rules = <<HostRule("undef"), HostRule("err")>>
    /\ LET e == lastBV.acc.errors IN
       /\ Len(e) >= 2
       /\ e[Len(e) - 1].message = "Rule 'undef' failed: Undefined word: nope"
       /\ e[Len(e)].message = "bad bundle"

\* C7: bundle-validate with a pack without required types and without
\* rules returns a result with success = TRUE and three empty lists, for
\* every bundle and every accumulator it finds.
C7_EmptyPackSucceeds ==
    (lastBV.done /\ lastBV.pack.required = <<>> /\ lastBV.pack.rules = <<>>) =>
        /\ Last(lastBV.after).t = "ValidationResult"
        /\ Last(lastBV.after).v.success
        /\ Last(lastBV.after).v.errors = <<>>
        /\ Last(lastBV.after).v.warnings = <<>>
        /\ Last(lastBV.after).v.suggestions = <<>>

\* C7 witness: an empty pack validated a non-empty bundle while the
\* accumulator held an error, a warning and a suggestion
C7_Witness ==
    /\ lastBV.done
    /\ lastBV.pack.required = <<>> /\ lastBV.pack.rules = <<>>
    /\ lastBV.bundle # <<>>
    /\ lastBV.prior.errors # <<>>
    /\ lastBV.prior.warnings # <<>>
    /\ lastBV.prior.suggestions # <<>>

\* C8: the step on which a bundle-validate returns Ok leaves on top of the
\* stack a ValidationResult equal to the accumulator and beneath it the
\* Bundle cell it was called on.
C8_BundleAndResultPushed ==
    [][ lastBV' # lastBV =>
            /\ err' = Ok
            /\ Len(stack') >= 2
            /\ Last(stack') = Value("ValidationResult", validation')
            /\ stack'[Len(stack') - 1] = lastBV'.before[Len(lastBV'.before) - 1]
            /\ stack'[Len(stack') - 1].t = "Bundle"
      ]_vars

\* C8 witness: the only rule dropped its clone of a non-empty bundle, and
\* the bundle is back under the result
C8_Witness ==
    /\ lastBV.done
    /\ lastBV.pack.rules = <<HostRule("drop")>>
    /\ lastBV.bundle # <<>>
    /\ stack = lastBV.after
    /\ Last(stack).t = "ValidationResult"
    /\ stack[Len(stack) - 1] = Value("Bundle", lastBV.bundle)

SameDepthAndBelow(before, after) ==
    /\ Len(after) = Len(before)
    /\ Below(after) = Below(before)

\* C9 as stated: every bundle-validate that returned, whatever its rules do
\* to the stack, left the depth and the cells below its two inputs as they
\* were.
C9_NetStackEffect ==
    lastBV.done => SameDepthAndBelow(lastBV.before, lastBV.after)

\* C9 amended: a bundle-validate that returned left the depth and the cells
\* below its two inputs as they were when each of its rules ended, normally
\* or with an error, with exactly one cell above those cells.
C9_NetStackEffectTidyRules ==
    (lastBV.done /\ lastBV.tidy) => SameDepthAndBelow(lastBV.before, lastBV.after)

\* C9 witness: two rules ran above cells that lay below the bundle
C9_Witness ==
    /\ lastBV.done /\ lastBV.tidy
    /\ Len(lastBV.pack.rules) = 2
    /\ Len(lastBV.before) > 2

\* the program of the scenario
ReadmeShipProgram ==
    <<S("README"), W("pack-new"), S("README"), W("pack-require"), W("swap"),
      W("pack-ship")>>

\* the same program without its swap
ReadmeShipNoSwap ==
    <<S("README"), W("pack-new"), S("README"), W("pack-require"), W("pack-ship")>>

\* the first eval on a VM whose only cell is the loaded one-README bundle
ReadmeRun(program) ==
    /\ evals = 1
    /\ run.program = program
    /\ run.entry = <<Value("Bundle", <<README>>)>>
    /\ current_bundle = Some(<<README>>)

\* C10 as stated: on a VM whose only stack cell is the bundle of one README
\* document given to load_bundle, the eval of
\* "README" pack-new "README" pack-require swap pack-ship
\* raises no execution error and ends with success = TRUE.
C10_ReadmeScenario ==
    ReadmeRun(ReadmeShipProgram) =>
        /\ err = Ok
        /\ status = "idle" => (result = Ok /\ validation.success)

\* C10 amended: on that VM the program without the swap,
\* "README" pack-new "README" pack-require pack-ship, raises no execution
\* error and ends with the bundle under a result with success = TRUE; the
\* program with the swap puts the bundle above the pack, and its eval
\* returns the type error of pack-ship (expected Pack, got Bundle).
C10_ReadmeScenarioPackOnTop ==
    /\ ReadmeRun(ReadmeShipNoSwap) =>
          /\ err = Ok
          /\ status = "idle" =>
                /\ result = Ok
                /\ validation.success
                /\ stack = <<Value("Bundle", <<README>>), Value("ValidationResult", validation)>>
    /\ (ReadmeRun(ReadmeShipProgram) /\ status = "idle") =>
          result = TypeError("Pack", "Bundle")

\* C10 witness: the eval of the program without the swap has returned
C10_Witness ==
    /\ ReadmeRun(ReadmeShipNoSwap)
    /\ status = "idle"
    /\ result = Ok
    /\ Last(stack).t = "ValidationResult"

LicenseShipProgram ==
    <<S("README"), W("pack-new"), S("LICENSE"), W("pack-require"), W("swap"),
      W("pack-ship")>>

\* the same program without its swap
LicenseShipNoSwap ==
    <<S("README"), W("pack-new"), S("LICENSE"), W("pack-require"), W("pack-ship")>>

\* the one error a one-README bundle gets from a pack that requires LICENSE
MissingLicense ==
    [ValidationResult_default EXCEPT
        !.success = FALSE,
        !.errors = <<ValidationMessage_new("Missing required document: LICENSE")>>]

\* C11 as stated: on a VM whose only stack cell is the bundle of one README
\* document given to load_bundle, the eval of
\* "README" pack-new "LICENSE" pack-require swap pack-ship
\* returns with a validation result whose success is FALSE and whose errors
\* are the single message "Missing required document: LICENSE".
C11_LicenseScenario ==
    (ReadmeRun(LicenseShipProgram) /\ status = "idle") =>
        /\ result = Ok
        /\ Last(stack) = Value("ValidationResult", MissingLicense)

\* C11 amended: on that VM the program without the swap,
\* "README" pack-new "LICENSE" pack-require pack-ship, returns Ok with the
\* bundle under a result whose success is FALSE and whose only message is the
\* error "Missing required document: LICENSE"; the program with the swap
\* returns the type error of pack-ship (expected Pack, got Bundle) and
\* reports nothing.
C11_LicenseScenarioPackOnTop ==
    /\ (ReadmeRun(LicenseShipNoSwap) /\ status = "idle") =>
          /\ result = Ok
          /\ stack = <<Value("Bundle", <<README>>),
                       Value("ValidationResult", MissingLicense)>>
    /\ (ReadmeRun(LicenseShipProgram) /\ status = "idle") =>
          /\ result = TypeError("Pack", "Bundle")
          /\ validation = ValidationResult_default

\* C11 witness: the eval of the LICENSE program without the swap has returned
\* with the one error
C11_Witness ==
    /\ ReadmeRun(LicenseShipNoSwap)
    /\ status = "idle"
    /\ validation.errors = <<ValidationMessage_new("Missing required document: LICENSE")>>

-----------------------------------------------------------------------------
(* Properties of the words that take no quotation.                         *)

\* the words C12 lists
C12_Words ==
    StackWords \cup ArithmeticWords \cup ComparisonWords \cup LogicWords
        \cup StringWords \cup ListWords \cup BundleWords
        \cup {"pack-new", "pack-require", "pack-optional"}
        \cup EnforcementWords \cup HashWords

\* the inputs of the documented stack effect ( a1 .. am -- b1 .. bn ), a1
\* first, by the typed pop that takes each
C12_Inputs(fn) ==
    CASE fn \in {"dup", "drop"} -> <<"Any">>
      [] fn \in {"swap", "over", "nip", "tuck", "=", "<>"} -> <<"Any", "Any">>
      [] fn = "rot" -> <<"Any", "Any", "Any">>
      [] fn \in {"+", "-", "*", "/", "mod", "<", ">", "<=", ">="} -> <<"Int", "Int">>
      [] fn \in {"abs", "negate"} -> <<"Int">>
      [] fn \in {"and", "or"} -> <<"Bool", "Bool">>
      [] fn = "not" -> <<"Bool">>
      [] fn \in {"str-concat", "str-contains?", "str-starts?", "str-ends?",
                 "str-split"} -> <<"Str", "Str">>
      [] fn \in {"str-trim", "str-upper", "str-lower", "str-len", "pack-new",
                 "hash-content", "error!", "warn!", "suggest!"} -> <<"Str">>
      [] fn = "list-push" -> <<"List", "Any">>
      [] fn \in {"list-pop", "list-len"} -> <<"List">>
      [] fn = "list-get" -> <<"List", "Int">>
      [] fn = "bundle-add" -> <<"Bundle", "Doc">>
      [] fn \in {"bundle-docs", "bundle-count"} -> <<"Bundle">>
      [] fn \in {"bundle-has-type?", "bundle-get-type"} -> <<"Bundle", "Str">>
      [] fn \in {"pack-require", "pack-optional"} -> <<"Pack", "Str">>
      [] fn = "require!" -> <<"Bool", "Str">>
      [] OTHER -> <<>>

\* the documented outputs: y, the cells that replace the inputs x (both with
\* the deepest cell first), on a stack that held d cells in all
C12_Outputs(fn, x, y, d) ==
    CASE fn = "dup" -> y = <<x[1], x[1]>>
      [] fn = "swap" -> y = <<x[2], x[1]>>
      [] fn = "over" -> y = <<x[1], x[2], x[1]>>
      [] fn = "rot" -> y = <<x[2], x[3], x[1]>>
      [] fn = "nip" -> y = <<x[2]>>
      [] fn = "tuck" -> y = <<x[2], x[1], x[2]>>
      [] fn = "depth" -> y = <<Value("Int", d)>>
      [] fn \in ArithmeticWords \cup {"str-len"} -> Len(y) = 1 /\ y[1].t = "Int"
      [] fn \in ComparisonWords \cup {"and", "or", "not", "str-contains?",
                                      "str-starts?", "str-ends?"} ->
            Len(y) = 1 /\ y[1].t = "Bool"
      [] fn = "true" -> y = <<Value("Bool", TRUE)>>
      [] fn = "false" -> y = <<Value("Bool", FALSE)>>
      [] fn = "nil" -> y = <<Value_Nil>>
      [] fn \in {"str-concat", "str-trim", "str-upper", "str-lower"} ->
            Len(y) = 1 /\ y[1].t = "Str"
      [] fn = "str-split" -> Len(y) = 1 /\ y[1].t = "List"
      [] fn = "list-new" -> y = <<Value("List", <<>>)>>
      [] fn = "list-push" -> y = <<Value("List", x[1].v \o <<x[2]>>)>>
      [] fn = "list-pop" ->
            /\ Len(y) = 2
            /\ IF x[1].v = <<>> THEN y = <<x[1], Value_Nil>>
               ELSE y[1].v \o <<y[2]>> = x[1].v
      [] fn = "list-get" ->
            /\ Len(y) = 1
            /\ \/ y[1] = Value_Nil
               \/ \E n \in 1..Len(x[1].v) : y[1] = x[1].v[n]
      [] fn = "list-len" -> y = <<x[1], Value("Int", Len(x[1].v))>>
      [] fn = "bundle-new" -> y = <<Value("Bundle", <<>>)>>
      [] fn = "bundle-add" -> Len(y) = 1 /\ y[1].t = "Bundle"
      [] fn = "bundle-docs" -> Len(y) = 1 /\ y[1].t = "List"
      [] fn = "bundle-count" -> y = <<x[1], Value("Int", Len(x[1].v))>>
      [] fn = "bundle-has-type?" -> Len(y) = 2 /\ y[1] = x[1] /\ y[2].t = "Bool"
      [] fn = "bundle-get-type" ->
            Len(y) = 2 /\ y[1] = x[1] /\ y[2].t \in {"Doc", "Nil"}
      [] fn \in {"pack-new", "pack-require", "pack-optional"} ->
            Len(y) = 1 /\ y[1].t = "Pack"
      [] fn = "hash-content" -> Len(y) = 1 /\ y[1].t = "Hash"
      [] OTHER -> y = <<>>

\* the word raises a runtime error on the inputs x: a zero divisor, or an
\* arithmetic overflow that panics in this build
C12_Faults(fn, x) ==
    \/ fn \in {"/", "mod"} /\ as_int(x[2]) = 0
    \/ fn \in {"/", "mod"} /\ as_int(x[1]) = i64_MIN /\ as_int(x[2]) = -1
    \/ /\ overflow_checks
       /\ \/ fn = "+" /\ as_int(x[1]) + as_int(x[2]) \notin i64_MIN..i64_MAX
          \/ fn = "-" /\ as_int(x[1]) - as_int(x[2]) \notin i64_MIN..i64_MAX
          \/ fn = "*" /\ as_int(x[1]) * as_int(x[2]) \notin i64_MIN..i64_MAX
          \/ fn \in {"abs", "negate"} /\ as_int(x[1]) = i64_MIN

\* the top m cells of s, deepest first
TopCells(s, m) == SubSeq(s, Len(s) - m + 1, Len(s))

\* C12: a listed built-in met on a stack whose top m cells type-check for
\* its m documented inputs, and on which it raises no runtime error,
\* returns Ok, replaces those m cells by its documented outputs (so the
\* depth changes by n - m) and leaves every cell below them as it was.
C12_StackEffects ==
    [][ \A fn \in C12_Words :
          LET m == Len(C12_Inputs(fn)) IN
          ( /\ AtNative({fn})
            /\ Len(stack) >= m
            /\ \A n \in 1..m : Accepts(C12_Inputs(fn)[n], TopCells(stack, m)[n])
            /\ ~C12_Faults(fn, TopCells(stack, m)) )
          => /\ err' = Ok
             /\ status' = "running"
             /\ Len(stack') >= Len(stack) - m
             /\ SubSeq(stack', 1, Len(stack) - m) = SubSeq(stack, 1, Len(stack) - m)
             /\ C12_Outputs(fn, TopCells(stack, m),
                            SubSeq(stack', Len(stack) - m + 1, Len(stack')),
                            Len(stack))
      ]_vars

\* C12 witness: the program of the eight stack words has run on a stack
\* that held one cell; the cell is still below the cells it arranged
C12_Witness ==
    /\ status = "idle"
    /\ result = Ok
    /\ run.entry = <<Value("Int", 7)>>
    /\ run.program = <<I(1), I(2), I(3), W("rot"), W("tuck"), W("over"), W("nip"),
                        W("swap"), W("dup"), W("drop"), W("depth")>>
    /\ stack = <<Value("Int", 7), Value("Int", 2), Value("Int", 1), Value("Int", 3),
                 Value("Int", 3), Value("Int", 5)>>

-----------------------------------------------------------------------------
(* Properties of the execution loop.                                       *)

\* the QuoteStart tokens minus the QuoteEnd tokens among tokens[a..b]
RECURSIVE Nesting(_, _, _)
Nesting(tokens, a, b) ==
    IF a > b THEN 0
    ELSE Nesting(tokens, a, b - 1)
            + (CASE tokens[b].k = "QuoteStart" -> 1
                 [] tokens[b].k = "QuoteEnd" -> -1
                 [] OTHER -> 0)

\* the positions after i where the brackets opened at i are all closed
Closings(tokens, i) ==
    {j \in (i + 1)..Len(tokens) : Nesting(tokens, i + 1, j) = -1}

\* C13: a QuoteStart whose matching QuoteEnd is in the slice pushes one
\* Quotation holding the tokens strictly between the two, inner pairs
\* included, changes nothing else and continues after the matching QuoteEnd;
\* a QuoteStart without a matching QuoteEnd raises the ParseError and pushes
\* nothing.
C13_QuotationPushed ==
    [][ (AtToken /\ Tok.k = "QuoteStart") =>
          /\ validation' = validation
          /\ dictionary' = dictionary
          /\ IF Closings(Top.tokens, Top.i) # {}
             THEN LET j == CHOOSE c \in Closings(Top.tokens, Top.i) :
                              \A d \in Closings(Top.tokens, Top.i) : c <= d
                  IN /\ err' = Ok
                     /\ stack' = stack \o
                            <<Value("Quotation", SubSeq(Top.tokens, Top.i + 1, j - 1))>>
                     /\ frames' = [frames EXCEPT ![Len(frames)].i = j + 1]
             ELSE /\ err' = ParseError("Unmatched quotation bracket")
                  /\ stack' = stack
                  /\ frames' = frames
      ]_vars

\* C13 witness: [ 1 [ 2 ] ] [ 3 has returned; the nested quotation is on the
\* stack in one piece, and the bracket left open raised the ParseError
C13_Witness ==
    /\ status = "idle"
    /\ result = ParseError("Unmatched quotation bracket")
    /\ stack # <<>>
    /\ Last(stack) = Value("Quotation", <<I(1), T("QuoteStart"), I(2), T("QuoteEnd")>>)

Least(set) == CHOOSE m \in set : \A n \in set : m <= n

\* the positions from `from` on that hold a token of variant k
Positions(tokens, from, k) == {j \in from..Len(tokens) : tokens[j].k = k}

\* where the body of the definition opened at tokens[i] starts: after the
\* name, or after the StackEffectEnd of a section that follows the name
BodyStart(tokens, i) ==
    IF i + 2 <= Len(tokens) /\ tokens[i + 2].k = "StackEffectStart"
    THEN IF Positions(tokens, i + 2, "StackEffectEnd") = {} THEN Len(tokens) + 2
         ELSE Least(Positions(tokens, i + 2, "StackEffectEnd")) + 1
    ELSE i + 2

\* C14: a DefStart followed by a Word, an optional stack-effect section, a
\* body and a DefEnd installs name -> User(body), body being the tokens from
\* the end of the section to the first DefEnd after it, runs none of them,
\* leaves the stack and the accumulator as they were and continues after
\* that DefEnd; without the name or without the DefEnd it raises a
\* ParseError and the dictionary stays as it was.  Executing a user word
\* enters its body, from the first token, and changes nothing else; the end
\* of the body resumes the caller after the word.
C14_DefinitionInstalled ==
    [][ /\ (AtToken /\ Tok.k = "DefStart") =>
              /\ stack' = stack
              /\ validation' = validation
              /\ IF /\ Top.i + 1 <= Len(Top.tokens)
                    /\ Top.tokens[Top.i + 1].k = "Word"
                    /\ Positions(Top.tokens, BodyStart(Top.tokens, Top.i), "DefEnd") # {}
                 THEN LET from == BodyStart(Top.tokens, Top.i)
                          to == Least(Positions(Top.tokens, from, "DefEnd"))
                          name == Top.tokens[Top.i + 1].arg
                      IN /\ err' = Ok
                         /\ DOMAIN dictionary' = DOMAIN dictionary \cup {name}
                         /\ dictionary'[name] =
                               [kind |-> "User", fn |-> "",
                                body |-> SubSeq(Top.tokens, from, to - 1)]
                         /\ \A n \in DOMAIN dictionary \ {name} :
                               dictionary'[n] = dictionary[n]
                         /\ frames' = [frames EXCEPT ![Len(frames)].i = to + 1]
                 ELSE /\ err'.kind = "ParseError"
                      /\ dictionary' = dictionary
                      /\ frames' = frames
        /\ (AtWord /\ Tok.arg \in DOMAIN dictionary
                   /\ dictionary[Tok.arg].kind = "User"
                   /\ Len(frames) < MaxFrames) =>
              /\ Len(frames') = Len(frames) + 1
              /\ Last(frames').tokens = dictionary[Tok.arg].body
              /\ Last(frames').i = 1
              /\ Front(frames') = frames
              /\ UNCHANGED <<stack, dictionary, validation, err>>
        /\ (AtEnd /\ Top.kind = "call") =>
              /\ frames' = [Front(frames) EXCEPT ![Len(frames) - 1].i = @ + 1]
              /\ UNCHANGED <<stack, dictionary, validation, err>>
      ]_vars

\* C14 witness: the program that defines inc with a stack-effect section and
\* runs it on 4 has returned; inc is the body after the section, 5 is on top
C14_Witness ==
    /\ status = "idle"
    /\ result = Ok
    /\ "inc" \in DOMAIN dictionary
    /\ dictionary["inc"] = WordDef_User(<<I(1), W("+")>>)
    /\ stack # <<>>
    /\ Last(stack) = Value("Int", 5)

\* tokens[i] lies between a StackEffectStart and the StackEffectEnd that
\* follows it
InStackEffect(tokens, i) ==
    /\ tokens[i].k # "StackEffectEnd"
    /\ Positions(tokens, i + 1, "StackEffectEnd") # {}
    /\ \E p \in 1..(i - 1) :
          /\ tokens[p].k = "StackEffectStart"
          /\ \A q \in (p + 1)..(i - 1) : tokens[q].k # "StackEffectEnd"

\* C15 as stated: a token between a StackEffectStart and the following
\* StackEffectEnd is never executed, wherever the pair is: the step of the
\* loop that meets it pushes nothing, reports nothing, defines nothing,
\* raises nothing and enters no word.
C15_StackEffectContentsSkipped ==
    [][ (AtToken /\ InStackEffect(Top.tokens, Top.i)) =>
          /\ UNCHANGED <<stack, validation, dictionary, err>>
          /\ Len(frames') = Len(frames)
      ]_vars

LateProgram ==
    <<T("QuoteStart"), W("nope"), T("QuoteEnd"), W("drop"),
      T("DefStart"), W("g"), W("nope"), T("DefEnd"),
      T("DefStart"), W("k"), W("h"), T("DefEnd"),
      T("DefStart"), W("h"), I(1), T("DefEnd"), W("k")>>

\* C16: a Word token is looked up when it is executed. The step that meets
\* a Word whose name is not in the dictionary raises UndefinedWord(name) and
\* changes nothing else; the step that pushes a quotation or installs a
\* definition raises no UndefinedWord, whatever names its body holds; and an
\* UndefinedWord is raised by no other step than the execution of that Word.
C16_ResolvedWhenExecuted ==
    [][ /\ (AtWord /\ Tok.arg \notin DOMAIN dictionary) =>
              /\ err' = UndefinedWord(Tok.arg)
              /\ UNCHANGED <<stack, frames, dictionary, validation>>
        /\ (AtToken /\ Tok.k \in {"QuoteStart", "DefStart"}) =>
              err'.kind # "UndefinedWord"
        /\ (err = Ok /\ err'.kind = "UndefinedWord") =>
              /\ AtWord
              /\ Tok.arg \notin DOMAIN dictionary
              /\ err'.a = Tok.arg
      ]_vars

\* C16 witness: the eval that pushed a quotation naming an absent word,
\* installed a word naming an absent word and ran a word whose body names a
\* word defined after it, returned Ok
C16_Witness ==
    /\ status = "idle"
    /\ run.program = LateProgram
    /\ result = Ok
    /\ "nope" \notin DOMAIN dictionary
    /\ "g" \in DOMAIN dictionary
    /\ dictionary["g"] = WordDef_User(<<W("nope")>>)
    /\ stack # <<>>
    /\ Last(stack) = Value("Int", 1)

Truthy(val) == (val.t = "Bool" /\ val.v) \/ (val.t = "Int" /\ val.v # 0)
IsCond(val) == val.t \in {"Bool", "Int", "Nil"}
Cell(n) == stack[Len(stack) + 1 - n]
IsQuote(n) == Len(stack) >= n /\ Cell(n).t = "Quotation"
Called(body) == frames' = Append(frames, Frame(body, "call", NoBV))
Dropped(n) == stack' = SubSeq(stack, 1, Len(stack) - n)

IfElseProgram ==
    <<I(0), T("QuoteStart"), S("t"), W("warn!"), T("QuoteEnd"),
      T("QuoteStart"), S("e"), W("error!"), T("QuoteEnd"), W("if"),
      S("after"), W("suggest!")>>

\* C17: on operands of the right kinds, `if` pops the else-quotation, the
\* then-quotation and the condition and calls the then-quotation when the
\* condition is truthy and the else-quotation otherwise; `when` calls its
\* body iff the condition is truthy and `unless` iff it is falsy; `call`
\* calls the popped quotation. The selected quotation is entered once: when
\* it returns the loop goes on after the word, and the other quotation is
\* never entered (in `0 [ "t" warn! ] [ "e" error! ] if` no warning is ever
\* reported and never more than one error).
C17_SelectedQuotationOnce ==
    [][ /\ (AtNative({"if"}) /\ IsQuote(1) /\ IsQuote(2) /\ Len(stack) >= 3
              /\ IsCond(Cell(3)) /\ CanEnter) =>
              /\ Dropped(3)
              /\ err' = Ok
              /\ Called(IF Truthy(Cell(3)) THEN Cell(2).v ELSE Cell(1).v)
        /\ (AtNative({"when", "unless"}) /\ IsQuote(1) /\ Len(stack) >= 2
              /\ IsCond(Cell(2)) /\ CanEnter) =>
              /\ Dropped(2)
              /\ err' = Ok
              /\ IF Truthy(Cell(2)) = (Tok.arg = "when")
                 THEN Called(Cell(1).v)
                 ELSE frames' = Advance(frames)
        /\ (AtNative({"call"}) /\ IsQuote(1) /\ CanEnter) =>
              /\ Dropped(1)
              /\ err' = Ok
              /\ Called(Cell(1).v)
        /\ (AtEnd /\ Top.kind = "call") =>
              /\ frames' = Advance(Front(frames))
              /\ UNCHANGED <<stack, validation, err>>
        /\ (run'.program = IfElseProgram) =>
              /\ validation'.warnings = <<>>
              /\ Len(validation'.errors) <= 1
      ]_vars

\* C17 witness: `0 [ "t" warn! ] [ "e" error! ] if "after" suggest!` has
\* returned: the else-quotation ran once, the then-quotation did not
C17_Witness ==
    /\ status = "idle"
    /\ run.program = IfElseProgram
    /\ result = Ok
    /\ validation.errors = <<ValidationMessage_new("e")>>
    /\ validation.warnings = <<>>
    /\ validation.suggestions = <<ValidationMessage_new("after")>>

-----------------------------------------------------------------------------
(* Properties of programs.                                                 *)

SquareProgram(n) ==
    <<T("DefStart"), W("square"), W("dup"), W("*"), T("DefEnd"), I(n), W("square")>>

\* C18 as stated: for every integer n of the machine's width the eval of
\* `: square dup * ; n square` completes without error and leaves Int(n*n)
\* on top of the stack.
C18_SquareOfEveryInt ==
    \A n \in {11, i64_MAX, i64_MIN} :
        (run.program = SquareProgram(n) /\ status # "running") =>
            /\ status = "idle"
            /\ result = Ok
            /\ stack # <<>>
            /\ Last(stack) = Value("Int", n * n)

OverOver == <<W("over"), W("over")>>
DupRot == <<W("dup"), W("rot"), W("dup"), W("rot"), W("drop")>>
Literals == { <<I(1), I(2), I(3)>>, <<I(1), I(2), I(2)>>, <<I(3)>> }

\* the cells a sequence of literal tokens pushes
Cells(lits) == [n \in 1..Len(lits) |-> Value(lits[n].k, lits[n].arg)]

\* the stack a sequence of native words leaves when run on s
RECURSIVE run_words(_, _)
run_words(ws, s) ==
    IF ws = <<>> THEN s
    ELSE run_words(Tail(ws),
                   CallNative(Head(ws).arg, s, ValidationResult_default).stack)

\* the eval of `program` has returned Ok
Returned(program) == status = "idle" /\ run.program = program /\ result = Ok

\* C19 as stated: from a stack of at least three cells, `over over` and
\* `dup rot dup rot drop` leave the same values in the top three cells.
C19_OverOverIdentity ==
    \A lits \in Literals :
        LET s0 == run.entry \o Cells(lits) IN
        (Len(s0) >= 3 /\ Returned(lits \o OverOver)) =>
            TopCells(stack, 3) = TopCells(run_words(DupRot, s0), 3)

\* C19: from a stack ending with the cells a b c, `over over` leaves
\* a b c b c and `dup rot dup rot drop` leaves a c b b: the top three cells
\* are c b c for the one and c b b for the other, and they are the same
\* exactly when b = c.
C19_OverOverTopThree ==
    \A lits \in Literals :
        LET s0 == run.entry \o Cells(lits)
            a == s0[Len(s0) - 2]
            b == s0[Len(s0) - 1]
            c == s0[Len(s0)]
            below == SubSeq(s0, 1, Len(s0) - 3)
        IN
        Len(s0) >= 3 =>
            /\ Returned(lits \o OverOver) =>
                  /\ stack = below \o <<a, b, c, b, c>>
                  /\ (TopCells(stack, 3) = TopCells(run_words(DupRot, s0), 3))
                        <=> (b = c)
            /\ Returned(lits \o DupRot) =>
                  /\ stack = below \o <<a, c, b, b>>
                  /\ (TopCells(stack, 3) = TopCells(run_words(OverOver, s0), 3))
                        <=> (b = c)

\* C19 witness: `1 2 3 dup rot dup rot drop` has returned with 3 2 2 on
\* top, where `1 2 3 over over` leaves 3 2 3
C19_Witness ==
    /\ Returned(<<I(1), I(2), I(3)>> \o DupRot)
    /\ TopCells(stack, 3) = <<Value("Int", 3), Value("Int", 2), Value("Int", 2)>>
    /\ TopCells(run_words(OverOver, run.entry \o Cells(<<I(1), I(2), I(3)>>)), 3)
          = <<Value("Int", 3), Value("Int", 2), Value("Int", 3)>>

-----------------------------------------------------------------------------
(* Properties of `=` and `<>`.                                             *)

\* both cells are of one variant among Int, Str, Bool, Hash and Nil, with
\* equal payloads
SameComparable(x, y) ==
    \/ x.t = "Nil" /\ y.t = "Nil"
    \/ /\ x.t \in {"Int", "Str", "Bool", "Hash"}
       /\ y.t = x.t
       /\ y.v = x.v

HashProgram ==
    <<S("p"), W("pack-new"), S("README"), W("pack-require"), S("NOTES"),
      W("pack-optional"), S("a"), W("hash-content"), S("a"), W("hash-content"),
      W("="), S("sha256:a"), S("a"), W("hash-content"), W("=")>>

\* C20: met on a stack of at least two cells, `=` pops two cells and pushes
\* Bool(TRUE) iff both are of one variant among Int, Str, Bool, Hash and Nil
\* and have equal payloads, and Bool(FALSE) for every other pair; it raises
\* no error; `<>` pushes the negation.
C20_Equality ==
    [][ (AtNative({"=", "<>"}) /\ Len(stack) >= 2) =>
          /\ err' = Ok
          /\ status' = "running"
          /\ stack' = Append(SubSeq(stack, 1, Len(stack) - 2),
                             Value("Bool", SameComparable(Cell(2), Cell(1))
                                             = (Tok.arg = "=")))
      ]_vars

\* C20 witness: two hashes of the same content were found equal, then a
\* Str and a Hash of the same text were found not equal
C20_Witness ==
    /\ Returned(HashProgram)
    /\ Len(stack) = 3
    /\ stack[2] = Value("Bool", TRUE)
    /\ stack[3] = Value("Bool", FALSE)

-----------------------------------------------------------------------------
(* Properties of `/` and `mod`.                                            *)

IsInt(n) == Len(stack) >= n /\ Cell(n).t = "Int"

\* C21 as stated: met on two Int cells, `/` with a zero divisor returns
\* RuntimeError("Division by zero") and `mod` returns
\* RuntimeError("Modulo by zero"), the two operands popped and nothing
\* pushed; with any other divisor the word returns Ok and pushes the
\* quotient (the remainder) of the second cell by the top cell.
C21_DivisionAndModulo ==
    [][ (AtNative({"/", "mod"}) /\ IsInt(1) /\ IsInt(2)) =>
          IF Cell(1).v = 0
          THEN /\ err' = RuntimeError(IF Tok.arg = "/" THEN "Division by zero"
                                                       ELSE "Modulo by zero")
               /\ Dropped(2)
          ELSE /\ err' = Ok
               /\ status' = "running"
               /\ stack' = Append(SubSeq(stack, 1, Len(stack) - 2),
                                  Value("Int", IF Tok.arg = "/"
                                               THEN TruncDiv(Cell(2).v, Cell(1).v)
                                               ELSE TruncRem(Cell(2).v, Cell(1).v)))
      ]_vars

-----------------------------------------------------------------------------
(* Properties of the typed pops.                                           *)

\* the variants the claim gives to pop_int, pop_bool and pop_str
C22_Accepted(kind) ==
    CASE kind = "Int" -> {"Int", "Float", "Bool"}
      [] kind = "Bool" -> {"Bool", "Int", "Nil"}
      [] kind = "Str" -> {"Str", "Hash"}

\* the Int the claim gives for a cell: a Float truncated toward zero (kept
\* within the range of Int when `within` is set), a Bool as 1 or 0
C22_Int(val, within) ==
    CASE val.t = "Int" -> val.v
      [] val.t = "Float" ->
            IF within /\ TruncDiv(val.v, 10) > i64_MAX THEN i64_MAX
            ELSE IF within /\ TruncDiv(val.v, 10) < i64_MIN THEN i64_MIN
            ELSE TruncDiv(val.v, 10)
      [] val.t = "Bool" -> IF val.v THEN 1 ELSE 0

\* what a word of one operand pushes for the value the claim gives to the
\* cell on top: abs and negate show pop_int (where the i64 operation does
\* not overflow), not shows pop_bool, str-len shows pop_str
C22_Shown(fn, val, within) ==
    CASE fn = "abs" -> Value("Int", Abs(C22_Int(val, within)))
      [] fn = "negate" -> Value("Int", -C22_Int(val, within))
      [] fn = "not" -> Value("Bool", ~Truthy(val))
      [] fn = "str-len" -> Value("Int", Len(val.v))

C22_Pops(within) ==
    \A kind \in {"Int", "Bool", "Str"} :
        (/\ AtNative(SimpleWords)
         /\ operands(Tok.arg) # <<>>
         /\ operands(Tok.arg)[1] = kind) =>
            IF stack = <<>>
            THEN err' = StackUnderflow /\ stack' = stack
            ELSE IF Cell(1).t \notin C22_Accepted(kind)
            THEN err' = TypeError(kind, Cell(1).t) /\ Dropped(1)
            ELSE /\ err' # TypeError(kind, Cell(1).t)
                 /\ (/\ Tok.arg \in {"abs", "negate", "not", "str-len"}
                     /\ Tok.arg \in {"abs", "negate"} =>
                            C22_Int(Cell(1), TRUE) # i64_MIN) =>
                        /\ err' = Ok
                        /\ stack' = Append(Front(stack),
                                           C22_Shown(Tok.arg, Cell(1), within))

\* C22 as stated: pop_int accepts Int, Float (truncated toward zero) and
\* Bool (1 or 0), pop_bool accepts Bool, Int (non-zero is true) and Nil
\* (false), pop_str accepts Str and Hash (its text); every other variant
\* yields the TypeError naming the helper's kind and the variant popped, and
\* an empty stack yields StackUnderflow.
C22_TypedPops == [][C22_Pops(FALSE)]_vars

\* C22: the same, with the Float given to pop_int truncated toward zero
\* when the truncated value is an Int and replaced by the nearest bound of
\* Int when it lies beyond the range.
C22_TypedPopsSaturating == [][C22_Pops(TRUE)]_vars

\* C22 witness: a Float, a Bool and a Float beyond the range went through
\* pop_int, and a Hash through pop_str
C22_Witness ==
    \/ /\ Returned(<<Token("Float", 15), W("negate"), Token("Float", -19), W("negate"),
                     W("true"), W("negate"), W("false"), W("abs"),
                     Token("Float", 10 * i64_MAX + 15), W("abs")>>)
       /\ ~overflow_checks
       /\ TopCells(stack, 5) = <<Value("Int", -1), Value("Int", 1), Value("Int", -1),
                                 Value("Int", 0), Value("Int", i64_MAX)>>
    \/ /\ status = "idle"
       /\ result = TypeError("Str", "Int")
       /\ stack = run.entry \o <<Value("Int", 2), Value("Int", 8)>>

-----------------------------------------------------------------------------
(* Properties of the bundle words.                                         *)

\* the cell the native word fn would leave on top of the present stack
TopAfter(fn) == Last(CallNative(fn, stack, validation).stack)

\* C23: met on a bundle b under a type t, `bundle-has-type?` pushes
\* Bool(TRUE) iff `bundle-get-type` on the same two cells pushes a Doc, and
\* Bool(FALSE) iff it pushes Nil; each of the two words leaves b under its
\* result and the cells below as they were.
C23_HasTypeIffGetType ==
    [][ (/\ AtNative({"bundle-has-type?", "bundle-get-type"})
         /\ Len(stack) >= 2
         /\ Cell(1).t \in {"Str", "Hash"}
         /\ Cell(2).t = "Bundle") =>
            /\ err' = Ok
            /\ Len(stack') = Len(stack)
            /\ Front(stack') = SubSeq(stack, 1, Len(stack) - 1)
            /\ IF Tok.arg = "bundle-has-type?"
               THEN /\ Last(stack').t = "Bool"
                    /\ TopAfter("bundle-get-type").t \in {"Doc", "Nil"}
                    /\ Last(stack').v = (TopAfter("bundle-get-type").t = "Doc")
               ELSE /\ Last(stack').t \in {"Doc", "Nil"}
                    /\ TopAfter("bundle-has-type?").t = "Bool"
                    /\ (Last(stack').t = "Doc") = TopAfter("bundle-has-type?").v
      ]_vars

\* C23 witness: on the bundle of a README and a LICENSE, has-type? said
\* TRUE for "LICENSE" and get-type gave the LICENSE document, the bundle
\* under it
C23_Witness ==
    /\ Returned(<<S("LICENSE"), W("bundle-has-type?"), W("swap"), S("LICENSE"),
                  W("bundle-get-type")>>)
    /\ stack = <<Value("Bool", TRUE), Value("Bundle", <<README, LICENSE>>),
                 Value("Doc", LICENSE)>>

AddsProgram ==
    <<W("bundle-docs"), W("list-pop"), W("swap"), W("list-pop"), W("swap"),
      W("list-pop"), W("nip"), W("bundle-new"), W("swap"), W("bundle-add"),
      W("swap"), W("bundle-add"), W("over"), W("bundle-add"), W("swap"),
      W("bundle-add"), W("bundle-count"), W("swap"), S("README"),
      W("bundle-get-type"), W("swap"), W("bundle-docs")>>

\* the earliest document of type t in docs, Nil if there is none
Earliest(docs, t) ==
    IF \A i \in 1..Len(docs) : docs[i].document_type # t THEN Value_Nil
    ELSE Value("Doc", docs[Least({i \in 1..Len(docs) : docs[i].document_type = t})])

\* C24: a bundle is the list of the documents added to it, in the order of
\* the adds and with duplicates kept: bundle-new pushes the empty bundle,
\* bundle-add appends its document at the end, bundle-docs lists the
\* documents in that order, bundle-count pushes their number and
\* bundle-get-type the earliest of them whose document_type is the type
\* asked for. The program that adds README, LICENSE, README2, README2 to a
\* new bundle ends with the count 4, the document README and the list of
\* the four documents in that order.
C24_InsertionOrder ==
    [][ /\ AtNative({"bundle-new"}) =>
              stack' = Append(stack, Value("Bundle", <<>>))
        /\ (AtNative({"bundle-add"}) /\ Len(stack) >= 2 /\ Cell(1).t = "Doc"
              /\ Cell(2).t = "Bundle") =>
              stack' = Append(SubSeq(stack, 1, Len(stack) - 2),
                              Value("Bundle", Append(Cell(2).v, Cell(1).v)))
        /\ (AtNative({"bundle-docs"}) /\ Len(stack) >= 1 /\ Cell(1).t = "Bundle") =>
              /\ Len(stack') = Len(stack)
              /\ Front(stack') = Front(stack)
              /\ Last(stack').t = "List"
              /\ Len(Last(stack').v) = Len(Cell(1).v)
              /\ \A i \in 1..Len(Cell(1).v) :
                    Last(stack').v[i] = Value("Doc", Cell(1).v[i])
        /\ (AtNative({"bundle-count"}) /\ Len(stack) >= 1 /\ Cell(1).t = "Bundle") =>
              stack' = Append(stack, Value("Int", Len(Cell(1).v)))
        /\ (AtNative({"bundle-get-type"}) /\ Len(stack) >= 2
              /\ Cell(1).t \in {"Str", "Hash"} /\ Cell(2).t = "Bundle") =>
              stack' = Append(Front(stack), Earliest(Cell(2).v, Cell(1).v))
        /\ (/\ status' = "idle"
            /\ run'.program = AddsProgram
            /\ run'.entry = <<Value("Bundle", <<README, LICENSE, README2>>)>>
            /\ evals' = 1) =>
              /\ result' = Ok
              /\ stack' = <<Value("Int", 4), Value("Doc", README),
                            Value("List", <<Value("Doc", README), Value("Doc", LICENSE),
                                            Value("Doc", README2), Value("Doc", README2)>>)>>
      ]_vars

\* C24 witness: README, LICENSE, README2 and README2 again were added to a
\* new bundle; its count is 4, its first README is the one added first and
\* its documents are listed in the order of the adds
C24_Witness ==
    /\ Returned(AddsProgram)
    /\ stack = <<Value("Int", 4), Value("Doc", README),
                 Value("List", <<Value("Doc", README), Value("Doc", LICENSE),
                                 Value("Doc", README2), Value("Doc", README2)>>)>>

-----------------------------------------------------------------------------
(* Properties of the documents.                                            *)

\* the documents a cell holds
DocsOf(val) ==
    CASE val.t = "Doc" -> {val.v}
      [] val.t = "Bundle" -> {val.v[i] : i \in 1..Len(val.v)}
      [] val.t = "List" -> {val.v[i].v : i \in {j \in 1..Len(val.v) : val.v[j].t = "Doc"}}
      [] OTHER -> {}

\* the documents the VM holds: in the current bundle and in the stack cells
Held ==
    {current_bundle.docs[i] : i \in 1..Len(current_bundle.docs)}
        \cup UNION {DocsOf(stack[n]) : n \in 1..Len(stack)}

\* the document carries the hash of its content
Hashed(d) == d.hash = sha256_hex(d.content)

SameHashProgram ==
    <<S("README"), W("bundle-get-type"), W("swap"), S("LICENSE"),
      W("bundle-get-type"), W("nip"), W("over"), W("over"), W("docs-same-hash?"),
      W("swap"), W("drop"), W("swap"), W("dup"), W("docs-same-hash?")>>

\* C25 as stated: every document the VM holds, in the bundle the host
\* loaded or in a stack cell, has for hash the SHA-256 of its content.
C25_HashOfContent == \A d \in Held : Hashed(d)

\* C25: the VM holds no other documents than those of the bundle the host
\* loaded, each with the hash and the content it came with; docs-same-hash?
\* pushes whether the two stored hashes are equal, which for two documents
\* that carry the hash of their content (as create_document makes them) is
\* whether their contents are identical.
C25_StoredHashCompared ==
    [][ /\ \A d \in UNION {DocsOf(stack'[n]) : n \in 1..Len(stack')} :
              \E i \in 1..Len(current_bundle'.docs) : d = current_bundle'.docs[i]
        /\ (AtNative({"docs-same-hash?"}) /\ Len(stack) >= 2
              /\ Cell(1).t = "Doc" /\ Cell(2).t = "Doc") =>
              /\ stack' = Append(SubSeq(stack, 1, Len(stack) - 2),
                                 Value("Bool", Cell(2).v.hash = Cell(1).v.hash))
              /\ (Hashed(Cell(1).v) /\ Hashed(Cell(2).v)) =>
                    Last(stack').v = (Cell(2).v.content = Cell(1).v.content)
      ]_vars

\* C25 witness: README and LICENSE were found to differ in hash, README and
\* itself to agree
C25_Witness ==
    /\ Returned(SameHashProgram)
    /\ stack = <<Value("Bool", FALSE), Value("Bool", TRUE)>>

-----------------------------------------------------------------------------
(* Properties of the current bundle.                                       *)

\* C30: the current bundle of the VM changes in no step of a program: the
\* only step that changes it is load_bundle, made by the host on an idle
\* VM, which stores the bundle it pushes.
C30_CurrentBundleKept ==
    [][ current_bundle' # current_bundle =>
          /\ status = "idle"
          /\ status' = "idle"
          /\ current_bundle'.some
          /\ stack' = Append(stack, Value("Bundle", current_bundle'.docs))
      ]_vars

\* C30 witness: a program added a document to the loaded bundle; the bundle
\* on the stack has two documents, the current bundle still has one
C30_Witness ==
    /\ Returned(<<S("README"), W("bundle-get-type"), W("bundle-add")>>)
    /\ stack = <<Value("Bundle", <<README, README>>)>>
    /\ current_bundle = Some(<<README>>)

-----------------------------------------------------------------------------
(* Texts of the library functions: a str is modelled as the sequence of its *)
(* characters, each a string of length one.                                 *)

\* char::is_whitespace, on the characters of the model
whitespace == {" ", "\t", "\n", "\r"}

\* str::trim_end
trim_end(text) ==
    LET kept == {i \in 1..Len(text) : text[i] \notin whitespace} IN
    IF kept = {} THEN <<>>
    ELSE SubSeq(text, 1, CHOOSE i \in kept : \A j \in kept : i >= j)

\* str::trim
str_trim(text) ==
    LET kept == {i \in 1..Len(text) : text[i] \notin whitespace} IN
    IF kept = {} THEN <<>>
    ELSE SubSeq(text, CHOOSE i \in kept : \A j \in kept : i <= j,
                      CHOOSE i \in kept : \A j \in kept : i >= j)

\* str::starts_with
starts_with(text, pat) ==
    Len(pat) <= Len(text) /\ SubSeq(text, 1, Len(pat)) = pat

\* str::find: the start of the first match of pat in text, 0 when there is none
find(text, pat) ==
    LET at == {i \in 1..(Len(text) + 1 - Len(pat)) :
                   SubSeq(text, i, i + Len(pat) - 1) = pat} IN
    IF at = {} THEN 0 ELSE CHOOSE i \in at : \A j \in at : i <= j

\* str::contains
contains(text, pat) == find(text, pat) # 0

\* str::split(pat).collect(): the pieces between the matches of pat, found left
\* to right without overlap
RECURSIVE str_split(_, _)
str_split(text, pat) ==
    LET i == find(text, pat) IN
    IF i = 0 THEN <<text>>
    ELSE <<SubSeq(text, 1, i - 1)>>
             \o str_split(SubSeq(text, i + Len(pat), Len(text)), pat)

\* [&str]::join
RECURSIVE join(_, _)
join(pieces, sep) ==
    IF pieces = <<>> THEN <<>>
    ELSE IF Len(pieces) = 1 THEN pieces[1]
    ELSE pieces[1] \o sep \o join(Tail(pieces), sep)

\* str::replace
str_replace(text, from, to) == join(str_split(text, from), to)

\* str::lines().collect(): the text cut after each "\n"; a line loses its "\n"
\* and then one "\r" before it; nothing follows a final "\n"
lines(text) ==
    LET cut  == str_split(text, <<"\n">>)
        ends == IF Last(cut) = <<>> THEN Len(cut) - 1 ELSE Len(cut)
        line(i) == IF i < Len(cut) /\ cut[i] # <<>> /\ Last(cut[i]) = "\r"
                   THEN SubSeq(cut[i], 1, Len(cut[i]) - 1)
                   ELSE cut[i]
    IN  [i \in 1..ends |-> line(i)]

-----------------------------------------------------------------------------
(* lib.rs: normalize_content.                                               *)

normalize_content(content) ==
    LET trimmed  == str_trim(content)
        unix     == str_replace(trimmed, <<"\r", "\n">>, <<"\n">>)
        each     == lines(unix)
        stripped == join([i \in 1..Len(each) |-> trim_end(each[i])], <<"\n">>)
    IN  join(str_split(stripped, <<"\n", "\n", "\n">>), <<"\n", "\n">>)

\* the variables of the VM, which the library functions leave alone
vm_vars == <<stack, dictionary, current_bundle, validation, frames, err,
             status, result, evals, lastBV, run, overflow_checks>>

\* the longest content the host passes
MaxContent == 6

\* the characters of the contents: a letter, a blank and the line ends
ContentChars == {"a", " ", "\n", "\r"}

Contents == UNION {[1..n -> ContentChars] : n \in 0..MaxContent}

NormInit ==
    /\ VM_new
    /\ overflow_checks = FALSE
    /\ input \in Contents
    /\ returned = <<>>

\* the host normalizes a content, and then what it got back
Normalize ==
    /\ Len(returned) < 2
    /\ returned' = Append(returned,
           normalize_content(IF returned = <<>> THEN input ELSE Last(returned)))
    /\ UNCHANGED <<vm_vars, input>>

NormSpec == NormInit /\ [][Normalize]_vars

-----------------------------------------------------------------------------
(* Properties of normalize_content.                                         *)

\* C27: normalize_content is idempotent: for every input text x, also one with
\* a run of four or more newlines or with lines of blanks only, normalizing
\* normalize_content(x) again gives normalize_content(x).
C27_Idempotent ==
    Len(returned) = 2 => returned[2] = returned[1]

-----------------------------------------------------------------------------
(* formats.rs: detect_format.  A Format is modelled as the name of its      *)
(* variant.                                                                 *)

\* the condition under which detect_format returns the format, once the
\* conditions tested before it have failed (the apostrophe stands for the
\* grave accent of the code fence, which no string of the model can hold)
marked(format, trimmed) ==
    LET leads(pat) == starts_with(trimmed, pat)
        has(pat)   == contains(trimmed, pat)
        each       == lines(trimmed)
        ruled(l)   == \A i \in 1..Len(l) : l[i] \in {"=", "-", "~"}
    IN  CASE format = "OrgMode" ->
               \/ leads(<<"#", "+">>) \/ has(<<"\n", "#", "+">>)
               \/ /\ leads(<<"*", " ">>) \/ has(<<"\n", "*", " ">>)
                  /\ has(<<"#", "+", "T", "I", "T", "L", "E", ":">>) \/ has(<<"#", "+", "A", "U", "T", "H", "O", "R", ":">>)
          [] format = "AsciiDoc" ->
               \/ leads(<<"=", " ">>) \/ leads(<<":", "t", "o", "c", ":">>)
               \/ has(<<"\n", "=", " ">>) \/ has(<<"-", "-", "-", "-", "\n">>)
          [] format = "Typst" ->
               leads(<<"#">>) /\ (has(<<"#", "{">>) \/ has(<<"#", "l", "e", "t">>))
          [] format = "Djot" ->
               has(<<"{", ".">>) \/ has(<<"[", "^">>)
          [] format = "ReStructuredText" ->
               \/ has(<<".", ".", " ">>) /\ (has(<<":", ":">>) \/ has(<<".", ".", " ", "c", "o", "d", "e", "-", "b", "l", "o", "c", "k", ":", ":">>))
               \/ /\ \E i \in 1..Len(each) : ruled(each[i]) /\ Len(each[i]) > 3
                  /\ \E i \in 2..Len(each) :
                         ruled(each[i]) /\ Len(each[i]) >= Len(each[i - 1])
          [] format = "Markdown" ->
               \/ leads(<<"#", " ">>) \/ leads(<<"#", "#", " ">>) \/ has(<<"\n", "#", " ">>)
               \/ has(<<"'", "'", "'">>) \/ has(<<"[", "]", "(">>) \/ has(<<"!", "[">>)

\* detect_format with the Markdown check made first
detect_markdown_first(content) ==
    LET trimmed == str_trim(content) IN
    IF marked("Markdown", trimmed) THEN "Markdown"
    ELSE IF marked("OrgMode", trimmed) THEN "OrgMode"
    ELSE IF marked("AsciiDoc", trimmed) THEN "AsciiDoc"
    ELSE IF marked("Typst", trimmed) THEN "Typst"
    ELSE IF marked("Djot", trimmed) THEN "Djot"
    ELSE IF marked("ReStructuredText", trimmed) THEN "ReStructuredText"
    ELSE "PlainText"

detect_format(content) ==
    LET trimmed == str_trim(content) IN
    IF marked("OrgMode", trimmed) THEN "OrgMode"
    ELSE IF marked("AsciiDoc", trimmed) THEN "AsciiDoc"
    ELSE IF marked("Typst", trimmed) THEN "Typst"
    ELSE IF marked("Djot", trimmed) THEN "Djot"
    ELSE IF marked("ReStructuredText", trimmed) THEN "ReStructuredText"
    ELSE IF marked("Markdown", trimmed) THEN "Markdown"
    ELSE "PlainText"

\* the most lines of a content the host passes
MaxLines == 3

\* the lines of the contents
FormatLines ==
    { <<"#", "+", "T", "I", "T", "L", "E", ":", " ", "T">>,
      <<"*", " ", "H">>,
      <<"=", " ", "D", "o", "c">>,
      <<":", "t", "o", "c", ":">>,
      <<"-", "-", "-", "-">>,
      <<"#", "l", "e", "t", " ", "a">>,
      <<"a", "{", ".", "b", "}">>,
      <<".", ".", " ", "a", ":", ":">>,
      <<"=", "=", "=">>,
      <<"a", "b", "c">>,
      <<"#", " ", "T", "i", "t", "l", "e">>,
      <<"'", "'", "'">>,
      <<>>,
      <<" ", " ">> }


Documents ==
    {join(ls, <<"\n">>) : ls \in UNION {[1..n -> FormatLines] : n \in 0..MaxLines}}

FormatInit ==
    /\ VM_new
    /\ overflow_checks = FALSE
    /\ input \in Documents
    /\ returned = <<>>

DetectFormat ==
    /\ returned = <<>>
    /\ returned' = <<detect_format(input)>>
    /\ UNCHANGED <<vm_vars, input>>

FormatSpec == FormatInit /\ [][DetectFormat]_vars

-----------------------------------------------------------------------------
(* Properties of detect_format.                                             *)

C28_Order ==
    <<"OrgMode", "AsciiDoc", "Typst", "Djot", "ReStructuredText", "Markdown">>

\* the places in C28_Order of the formats whose heuristic matches the content
C28_Hits == {i \in 1..Len(C28_Order) : marked(C28_Order[i], str_trim(input))}

OrgBeforeMarkdown == <<"#", "+", "T", "I", "T", "L", "E", ":", " ", "T", "\n", "#", " ", "T", "i", "t", "l", "e">>
AsciiDocBeforeToc == <<"=", " ", "D", "o", "c", "\n", ":", "t", "o", "c", ":">>
MarkdownWithBody  == <<"#", " ", "T", "i", "t", "l", "e", "\n", "a", "b", "c">>

\* C28: detect_format returns the format of the first heuristic, in the order
\* Org-mode, AsciiDoc, Typst, Djot, reStructuredText, Markdown, that matches
\* the trimmed content, and PlainText when none matches; so a `#+TITLE:` line
\* with a `# ` heading is OrgMode, `= Doc` followed by `:toc:` is AsciiDoc and
\* `# Title` followed by body text is Markdown.
C28_FirstMatchWins ==
    returned # <<>> =>
        /\ IF C28_Hits = {} THEN returned[1] = "PlainText"
           ELSE \E i \in C28_Hits :
                    /\ \A j \in C28_Hits : i <= j
                    /\ returned[1] = C28_Order[i]
        /\ input = OrgBeforeMarkdown => returned[1] = "OrgMode"
        /\ input = AsciiDocBeforeToc => returned[1] = "AsciiDoc"
        /\ input = MarkdownWithBody => returned[1] = "Markdown"

C28_Witness ==
    /\ input = OrgBeforeMarkdown
    /\ returned = <<"OrgMode">>
    /\ {1, 6} \subseteq C28_Hits

\* C29: when the trimmed content matches none of the Org-mode, AsciiDoc, Typst
\* and Djot heuristics and some line of three or more `=`, `-` or `~` and of
\* nothing else directly follows a line that is not longer than it,
\* detect_format returns ReStructuredText.
C29_UnderlineIsRst ==
    returned # <<>> =>
        LET each == lines(str_trim(input)) IN
        (/\ C28_Hits \cap 1..4 = {}
         /\ \E i \in 2..Len(each) :
                /\ Len(each[i]) >= 3
                /\ \A k \in 1..Len(each[i]) : each[i][k] \in {"=", "-", "~"}
                /\ Len(each[i - 1]) <= Len(each[i]))
        => returned[1] = "ReStructuredText"

-----------------------------------------------------------------------------
(* lexer.rs: Lexer.  The input is the sequence of its characters and the    *)
(* position counts them from 1; the String of a Word, Str or Comment token  *)
(* is the sequence of its characters.                                       *)

\* a read_word that stops at a colon as well
read_word_to_colon(text, pos) ==
    LET stops == {p \in pos..Len(text) + 1 :
                    \/ p = Len(text) + 1
                    \/ text[p] \in whitespace \cup {"[", "]", "\"", "(", ")", ":"}
                    \/ text[p] = "-" /\ p < Len(text) /\ text[p + 1] = "-"}
    IN  CHOOSE p \in stops : \A q \in stops : p <= q

\* Lexer::read_word: the position at which the word that starts at pos stops
read_word(text, pos) ==
    LET stops == {p \in pos..Len(text) + 1 :
                    \/ p = Len(text) + 1
                    \/ text[p] \in whitespace \cup {"[", "]", "\"", "(", ")"}
                    \/ text[p] = "-" /\ p < Len(text) /\ text[p + 1] = "-"}
    IN  CHOOSE p \in stops : \A q \in stops : p <= q

\* Ok(Some(token)) and Ok(None) of next_token, with the position reached, and
\* its Err(e)
Lexed(token, pos) == [err |-> Ok, some |-> TRUE, token |-> token, pos |-> pos]
NoToken(pos) == [err |-> Ok, some |-> FALSE, token |-> T("None"), pos |-> pos]
LexError(e, pos) == [err |-> e, some |-> FALSE, token |-> T("None"), pos |-> pos]

\* read_string that keeps the backslash of an escape sequence
RECURSIVE read_string_raw(_, _, _)
read_string_raw(text, pos, text_read) ==
    IF pos > Len(text)
    THEN LexError(ParseError("Unterminated string"), pos)
    ELSE IF text[pos] = "\""
    THEN Lexed(Token("Str", text_read), pos + 1)
    ELSE IF text[pos] = "\\"
    THEN IF pos + 1 > Len(text)
         THEN LexError(ParseError("Unterminated escape sequence"), pos + 1)
         ELSE read_string_raw(text, pos + 2, text_read \o <<"\\", text[pos + 1]>>)
    ELSE read_string_raw(text, pos + 1, Append(text_read, text[pos]))

\* Lexer::read_string, from the character after the opening quote
RECURSIVE read_string(_, _, _)
read_string(text, pos, text_read) ==
    IF pos > Len(text)
    THEN LexError(ParseError("Unterminated string"), pos)
    ELSE IF text[pos] = "\""
    THEN Lexed(Token("Str", text_read), pos + 1)
    ELSE IF text[pos] = "\\"
    THEN IF pos + 1 > Len(text)
         THEN LexError(ParseError("Unterminated escape sequence"), pos + 1)
         ELSE LET c == text[pos + 1]
                  escaped == CASE c = "n" -> "\n"
                               [] c = "t" -> "\t"
                               [] c = "r" -> "\r"
                               [] OTHER -> c
              IN  read_string(text, pos + 2, Append(text_read, escaped))
    ELSE read_string(text, pos + 1, Append(text_read, text[pos]))

\* word.parse::<i64>(), word.parse::<f64>() and the arms after them: the token
\* of a word.  An i64 literal is a sign, if any, and decimal digits that give
\* a value of the type; of the f64 literals the decimal ones with at most one
\* digit after the point are modelled, a Float holding tenths.
number(word) ==
    LET digit    == [c \in {"0", "1", "2", "3", "4", "5", "6", "7", "8", "9"} |->
                        CASE c = "0" -> 0 [] c = "1" -> 1 [] c = "2" -> 2
                          [] c = "3" -> 3 [] c = "4" -> 4 [] c = "5" -> 5
                          [] c = "6" -> 6 [] c = "7" -> 7 [] c = "8" -> 8
                          [] c = "9" -> 9]
        signed   == word # <<>> /\ word[1] \in {"+", "-"}
        sign     == IF signed /\ word[1] = "-" THEN -1 ELSE 1
        body     == IF signed THEN Tail(word) ELSE word
        point    == find(body, <<".">>)
        whole    == IF point = 0 THEN body ELSE SubSeq(body, 1, point - 1)
        fraction == IF point = 0 THEN <<>> ELSE SubSeq(body, point + 1, Len(body))
        digits(ds) == \A i \in 1..Len(ds) : ds[i] \in DOMAIN digit
        value[i \in 0..Len(whole)] ==
            IF i = 0 THEN 0 ELSE 10 * value[i - 1] + digit[whole[i]]
        n        == sign * value[Len(whole)]
    IN  IF point = 0 /\ whole # <<>> /\ digits(whole) /\ n \in i64_MIN..i64_MAX
        THEN Token("Int", n)
        ELSE IF /\ digits(whole) /\ digits(fraction)
                /\ Len(whole) + Len(fraction) > 0 /\ Len(fraction) <= 1
        THEN Token("Float",
                   10 * n + sign * (IF fraction = <<>> THEN 0 ELSE digit[fraction[1]]))
        ELSE Token("Word", word)

\* a next_token whose comment ends before a closing parenthesis
next_token_short_comment(text, from) ==
    LET pos  == CHOOSE q \in from..Len(text) + 1 :
                    /\ q = Len(text) + 1 \/ text[q] \notin whitespace
                    /\ \A r \in from..q - 1 : text[r] \in whitespace
        ch   == text[pos]
        next == IF pos < Len(text) THEN text[pos + 1] ELSE ""
        line == {q \in pos..Len(text) + 1 : q = Len(text) + 1 \/ text[q] \in {"\n", ")"}}
        end  == CHOOSE q \in line : \A r \in line : q <= r
        stop == read_word(text, pos)
    IN  IF pos > Len(text) THEN NoToken(pos)
        ELSE IF ch = "-" /\ next = "-"
        THEN Lexed(Token("Comment", SubSeq(text, pos, end - 1)), end)
        ELSE IF ch = "\"" THEN read_string(text, pos + 1, <<>>)
        ELSE IF ch = "[" THEN Lexed(T("QuoteStart"), pos + 1)
        ELSE IF ch = "]" THEN Lexed(T("QuoteEnd"), pos + 1)
        ELSE IF ch = ":" /\ (next = "" \/ next \in whitespace)
        THEN Lexed(T("DefStart"), pos + 1)
        ELSE IF ch = ";" THEN Lexed(T("DefEnd"), pos + 1)
        ELSE IF ch = "(" THEN Lexed(T("StackEffectStart"), pos + 1)
        ELSE IF ch = ")" THEN Lexed(T("StackEffectEnd"), pos + 1)
        ELSE IF stop = pos
        THEN LexError(ParseError("Unexpected character: " \o ch), pos)
        ELSE Lexed(number(SubSeq(text, pos, stop - 1)), stop)

\* Lexer::next_token, called at position from
next_token(text, from) ==
    LET pos  == CHOOSE q \in from..Len(text) + 1 :
                    /\ q = Len(text) + 1 \/ text[q] \notin whitespace
                    /\ \A r \in from..q - 1 : text[r] \in whitespace
        ch   == text[pos]
        next == IF pos < Len(text) THEN text[pos + 1] ELSE ""
        line == {q \in pos..Len(text) + 1 : q = Len(text) + 1 \/ text[q] = "\n"}
        end  == CHOOSE q \in line : \A r \in line : q <= r
        stop == read_word(text, pos)
    IN  IF pos > Len(text) THEN NoToken(pos)
        ELSE IF ch = "-" /\ next = "-"
        THEN Lexed(Token("Comment", SubSeq(text, pos, end - 1)), end)
        ELSE IF ch = "\"" THEN read_string(text, pos + 1, <<>>)
        ELSE IF ch = "[" THEN Lexed(T("QuoteStart"), pos + 1)
        ELSE IF ch = "]" THEN Lexed(T("QuoteEnd"), pos + 1)
        ELSE IF ch = ":" /\ (next = "" \/ next \in whitespace)
        THEN Lexed(T("DefStart"), pos + 1)
        ELSE IF ch = ";" THEN Lexed(T("DefEnd"), pos + 1)
        ELSE IF ch = "(" THEN Lexed(T("StackEffectStart"), pos + 1)
        ELSE IF ch = ")" THEN Lexed(T("StackEffectEnd"), pos + 1)
        ELSE IF stop = pos
        THEN LexError(ParseError("Unexpected character: " \o ch), pos)
        ELSE Lexed(number(SubSeq(text, pos, stop - 1)), stop)

\* Lexer::tokenize: Ok(tokens) or Err(e)
RECURSIVE tokenize_from(_, _, _)
tokenize_from(text, pos, tokens) ==
    LET got == next_token(text, pos) IN
    IF got.err # Ok THEN [err |-> got.err, tokens |-> <<>>]
    ELSE IF ~got.some THEN [err |-> Ok, tokens |-> tokens]
    ELSE tokenize_from(text, got.pos, Append(tokens, got.token))

tokenize(text) == tokenize_from(text, 1, <<>>)

-----------------------------------------------------------------------------
(* vm.rs: VM::eval on a source text.                                       *)

\* a String of the lexer, held as its characters, as the VM holds it
RECURSIVE as_string(_)
as_string(chars) == IF chars = <<>> THEN "" ELSE Head(chars) \o as_string(Tail(chars))

vm_token(token) ==
    IF token.k \in {"Word", "Str", "Comment"}
    THEN Token(token.k, as_string(token.arg))
    ELSE token

vm_tokens(tokens) == [n \in DOMAIN tokens |-> vm_token(tokens[n])]

\* : g ; 5 "a
UnterminatedString == <<":", " ", "g", " ", ";", " ", "5", " ", "\"", "a">>
\* : g ; 5 "a\
UnterminatedEscape == <<":", " ", "g", " ", ";", " ", "5", " ", "\"", "a", "\\">>
\* : g ; 5 [ 3
UnmatchedQuote == <<":", " ", "g", " ", ";", " ", "5", " ", "[", " ", "3">>
\* : g ; 5 : h 3
UnterminatedDef ==
    <<":", " ", "g", " ", ";", " ", "5", " ", ":", " ", "h", " ", "3">>
\* : sq ( a -- b ) dup * ;
AnnotatedDef ==
    <<":", " ", "s", "q", " ", "(", " ", "a", " ", "-", "-", " ", "b", " ", ")",
      " ", "d", "u", "p", " ", "*", " ", ";">>

\* the source texts the host evaluates
HostSources ==
    {UnterminatedString, UnterminatedEscape, UnmatchedQuote, UnterminatedDef,
     AnnotatedDef}

\* the tokens the lexer reads until it fails or reaches the end
RECURSIVE read_tokens(_, _, _)
read_tokens(text, pos, tokens) ==
    LET got == next_token(text, pos) IN
    IF got.err # Ok \/ ~got.some THEN tokens
    ELSE read_tokens(text, got.pos, Append(tokens, got.token))

\* an eval that executes the tokens read before the lexer failed
eval_lenient(source) ==
    /\ status = "idle" /\ evals < MaxEvals
    /\ IF evals > 0 \/ stack = <<>> THEN TRUE ELSE Last(stack).t # "Pack"
    /\ evals > 0 => source = UnterminatedString
    /\ LET tokens == read_tokens(source, 1, <<>>)
       IN
       /\ status' = "running"
       /\ frames' = <<Frame(vm_tokens(tokens), "eval", NoBV)>>
       /\ evals' = evals + 1
       /\ run' = [program |-> vm_tokens(tokens), source |-> source, entry |-> stack,
                  reported |-> FALSE, sinceReset |-> FALSE]
       /\ UNCHANGED <<stack, dictionary, current_bundle, validation, err, result,
                      lastBV, overflow_checks, lib_vars>>

\* vm.rs: VM::eval: `lexer.tokenize()?`, then `self.execute(&tokens)`
eval_source(source) ==
    /\ status = "idle" /\ evals < MaxEvals
    /\ IF evals > 0 \/ stack = <<>> THEN TRUE ELSE Last(stack).t # "Pack"
    /\ evals > 0 => source = UnterminatedString
    /\ LET lexed == tokenize(source) IN
       IF lexed.err # Ok
       THEN /\ result' = lexed.err
            /\ evals' = evals + 1
            /\ run' = [program |-> <<>>, source |-> source, entry |-> stack,
                       reported |-> FALSE, sinceReset |-> FALSE]
            /\ UNCHANGED <<stack, dictionary, current_bundle, validation, frames,
                           err, status, lastBV, overflow_checks, lib_vars>>
       ELSE /\ status' = "running"
            /\ frames' = <<Frame(vm_tokens(lexed.tokens), "eval", NoBV)>>
            /\ evals' = evals + 1
            /\ run' = [program |-> vm_tokens(lexed.tokens), source |-> source,
                       entry |-> stack, reported |-> FALSE, sinceReset |-> FALSE]
            /\ UNCHANGED <<stack, dictionary, current_bundle, validation, err,
                           result, lastBV, overflow_checks, lib_vars>>

Next ==
    \/ \E val \in HostCells : Push(val)
    \/ \E p \in HostPacks : PushPack(p)
    \/ \E docs \in HostBundles : load_bundle(docs)
    \/ ResetValidation
    \/ \E tokens \in Programs \cup ShipPrograms \cup FollowUpPrograms : eval(tokens)
    \/ \E source \in HostSources : eval_source(source)
    \/ ExecLiteral
    \/ ExecQuoteStart
    \/ ExecDefStart
    \/ ExecSkip
    \/ ExecUndefined
    \/ ExecUser
    \/ ExecNative
    \/ ExecIf
    \/ ExecWhen
    \/ ExecUnless
    \/ ExecCall
    \/ ExecBundleValidate
    \/ ReturnRule
    \/ CatchRule
    \/ ReturnCall
    \/ UnwindCall
    \/ ReturnEval
    \/ UnwindEval

Spec == Init /\ [][Next]_vars

\* the most pieces of a source the host passes
MaxPieces == 3

\* the pieces of the sources
SourcePieces ==
    { <<"a">>, <<"9">>, <<"+">>, <<"-">>, <<"-", "-">>, <<" ">>, <<"\n">>,
      <<"\"">>, <<"\\">>, <<"\\", "\\">>, <<"[">>, <<"]">>, <<"(">>, <<":">>,
      <<";">> }

Sources ==
    {join(ps, <<>>) : ps \in UNION {[1..n -> SourcePieces] : n \in 0..MaxPieces}}

LexInit ==
    /\ VM_new
    /\ overflow_checks = FALSE
    /\ input \in Sources
    /\ returned = <<>>

\* the host tokenizes the source, and then the text it made of the tokens
Tokenize ==
    /\ Len(returned) \in {0, 2}
    /\ returned' = Append(returned,
           tokenize(IF returned = <<>> THEN input ELSE returned[2].text))
    /\ UNCHANGED <<vm_vars, input>>

-----------------------------------------------------------------------------
(* Properties of the lexer.                                                 *)

\* the decimal digits of a natural number
RECURSIVE Digits(_)
Digits(n) ==
    LET figure == <<"0", "1", "2", "3", "4", "5", "6", "7", "8", "9">> IN
    IF n < 10 THEN <<figure[n + 1]>>
    ELSE Append(Digits(n \div 10), figure[(n % 10) + 1])

\* a token as source text
Written(token) ==
    LET size  == IF token.arg < 0 THEN -token.arg ELSE token.arg
        minus == IF token.arg < 0 THEN <<"-">> ELSE <<>>
        quoted[i \in 0..Len(token.arg)] ==
            IF i = 0 THEN <<>>
            ELSE quoted[i - 1] \o (IF token.arg[i] \in {"\"", "\\"}
                                   THEN <<"\\", token.arg[i]>>
                                   ELSE <<token.arg[i]>>)
    IN  CASE token.k \in {"Word", "Comment"} -> token.arg
          [] token.k = "Int" -> minus \o Digits(size)
          [] token.k = "Float" ->
               minus \o Digits(size \div 10) \o <<".">> \o Digits(size % 10)
          [] token.k = "Str" -> <<"\"">> \o quoted[Len(token.arg)] \o <<"\"">>
          [] token.k = "QuoteStart" -> <<"[">>
          [] token.k = "QuoteEnd" -> <<"]">>
          [] token.k = "DefStart" -> <<":">>
          [] token.k = "DefEnd" -> <<";">>
          [] token.k = "StackEffectStart" -> <<"(">>
          [] token.k = "StackEffectEnd" -> <<")">>

\* the tokens as source text, a space between two tokens
Reassembled(tokens) ==
    join([i \in 1..Len(tokens) |-> Written(tokens[i])], <<" ">>)

\* the host writes the tokens it got back to source text
Reassemble ==
    /\ Len(returned) = 1
    /\ returned[1].err = Ok
    /\ returned' = Append(returned, [text |-> Reassembled(returned[1].tokens)])
    /\ UNCHANGED <<vm_vars, input>>

LexNext ==
    \/ Tokenize
    \/ Reassemble

LexSpec == LexInit /\ [][LexNext]_vars

NoComments(tokens) == SelectSeq(tokens, LAMBDA token : token.k # "Comment")

SameTokens(a, b) ==
    /\ Len(a) = Len(b)
    /\ \A i \in 1..Len(a) : a[i].k = b[i].k /\ a[i].arg = b[i].arg

SameModuloComments ==
    /\ returned[3].err = Ok
    /\ SameTokens(NoComments(returned[3].tokens), NoComments(returned[1].tokens))

\* no token follows a Comment token, and no Word token is `:`
Separable(tokens) ==
    \A i \in 1..Len(tokens) :
        /\ tokens[i].k = "Comment" => i = Len(tokens)
        /\ tokens[i].k = "Word" => tokens[i].arg # <<":">>

\* C26: when a source text tokenizes without error, writing the tokens back to
\* source text with one space between them and tokenizing that text gives,
\* Comment tokens left out of both, the same tokens.
C26_RoundTrip ==
    Len(returned) = 3 => SameModuloComments

\* C26, as the lexer has it: the same for the sources in whose tokens no token
\* follows a Comment token and no Word token is `:`.
C26_RoundTripOfSeparable ==
    Len(returned) = 3 /\ Separable(returned[1].tokens) => SameModuloComments

C26_Witness ==
    /\ Len(returned) = 3
    /\ Separable(returned[1].tokens)
    /\ Len(returned[1].tokens) = 3
    /\ returned[1].tokens[3].k = "Comment"
    /\ returned[2].text # input

-----------------------------------------------------------------------------
(* Properties of a VM used for several eval calls.                          *)

\* every message of `was` is still in `now`, at its place
KeepsMessages(was, now) ==
    /\ IsPrefix(was.errors, now.errors)
    /\ IsPrefix(was.warnings, now.warnings)
    /\ IsPrefix(was.suggestions, now.suggestions)

\* C31: the step that starts an eval call leaves the stack, the dictionary
\* and the accumulator as the earlier calls left them; the only steps that
\* take a message out of the accumulator are the host's reset_validation and
\* a bundle-validate (also as pack-ship); and reset_validation empties the
\* accumulator and changes neither the stack nor the dictionary.
C31_NoResetAtEval ==
    [][ /\ (status = "idle" /\ evals' = evals + 1) =>
              /\ stack' = stack
              /\ dictionary' = dictionary
              /\ validation' = validation
        /\ ~KeepsMessages(validation, validation') =>
              \/ status = "idle" /\ status' = "idle" /\ evals > 0 /\ evals' = evals
              \/ AtNative(ValidateWords)
        /\ (status = "idle" /\ status' = "idle" /\ evals > 0 /\ evals' = evals) =>
              /\ validation' = ValidationResult_default
              /\ stack' = stack
              /\ dictionary' = dictionary
      ]_vars

\* C31 witness: a second eval call starts after a call that ended in an
\* error; the cell, the user word and the warning of that call are there
C31_Witness ==
    /\ status = "running" /\ evals = 2
    /\ frames = <<Frame(run.program, "eval", NoBV)>>
    /\ result = UndefinedWord("nope")
    /\ stack # <<>>
    /\ "f" \in DOMAIN dictionary /\ dictionary["f"].kind = "User"
    /\ validation.warnings # <<>>

-----------------------------------------------------------------------------
(* Properties of the rules of bundle-validate.                              *)

\* a rule body of bundle-validate has just finished, with Ok or with an error
RuleFinished ==
    /\ status = "running" /\ frames # <<>>
    /\ Top.kind = "rule"
    /\ err # Ok \/ Top.i > Len(Top.tokens)

\* C32: after each rule body, however it ended and whatever it left, the one
\* cell on top is taken off the stack, nothing when the stack is empty, and no
\* error comes of it: the next rule is called on a clone of the bundle, and
\* after the last rule the bundle and the result are pushed.
C32_OnePopAfterEachRule ==
    [][ RuleFinished =>
          LET bv == Top.bv
              popped == IF stack = <<>> THEN <<>> ELSE Front(stack)
              clone == Value("Bundle", bv.bundle)
          IN  /\ err' = Ok
              /\ IF bv.idx < Len(bv.pack.rules)
                 THEN /\ stack' = Append(popped, clone)
                      /\ Len(frames') = Len(frames)
                      /\ frames'[Len(frames)].kind = "rule"
                      /\ frames'[Len(frames)].i = 1
                      /\ frames'[Len(frames)].tokens = bv.pack.rules[bv.idx + 1].body
                 ELSE /\ stack' = popped \o <<clone, Value("ValidationResult", validation')>>
                      /\ frames' = Advance(Front(frames))
      ]_vars

\* C32 witness: the first rule dropped the clone and ended on an empty stack;
\* the second rule starts on a clone of the bundle
C32_Witness ==
    /\ status = "running" /\ err = Ok /\ frames # <<>>
    /\ Top.kind = "rule" /\ Top.i = 1 /\ Top.bv.idx = 2
    /\ Len(Top.bv.before) = 2
    /\ ~Top.bv.tidy
    /\ stack = <<Value("Bundle", Top.bv.bundle)>>

-----------------------------------------------------------------------------
(* Properties of runaway recursion.                                         *)

SelfCallingWord == <<T("DefStart"), W("f"), W("f"), T("DefEnd"), W("f")>>
SelfCallingQuotation ==
    <<T("QuoteStart"), W("dup"), W("call"), T("QuoteEnd"), W("dup"), W("call")>>

\* C33: every step of the evaluation of `: f f ; f` and of
\* `[ dup call ] dup call` leaves the evaluation running, without an error and
\* with a token still to execute in the innermost execute, and either enters
\* one more nested execute or moves on in the innermost one: the evaluation
\* does not complete, returns no Error, and the nesting grows.
C33_NoStepLimit ==
    [][ (status = "running" /\ run.program \in {SelfCallingWord, SelfCallingQuotation}) =>
          /\ status' = "running"
          /\ err' = Ok
          /\ frames' # <<>>
          /\ frames'[Len(frames')].i <= Len(frames'[Len(frames')].tokens)
          /\ \/ Len(frames') = Len(frames) + 1
             \/ /\ Len(frames') = Len(frames)
                /\ frames'[Len(frames')].i > Top.i
                /\ Front(frames') = Front(frames)
      ]_vars

\* C33 witness: the evaluation is as deeply nested as the model follows it
C33_Witness ==
    /\ status = "running" /\ err = Ok
    /\ run.program = SelfCallingQuotation
    /\ Len(frames) = MaxFrames
    /\ \A n \in 2..Len(frames) : frames[n].tokens = <<W("dup"), W("call")>>

-----------------------------------------------------------------------------
(* Properties of a bundle-validate run by a rule of another one.            *)

\* a bundle-validate is in progress: one of its rule bodies is running
InRule == \E n \in DOMAIN frames : frames[n].kind = "rule"

\* the index of the last rule of `rules` that runs a pack-ship of its own
LastNested(rules) ==
    LET idxs == {j \in DOMAIN rules : rules[j].name = "nested"} IN
    IF idxs = {} THEN 0 ELSE CHOOSE k \in idxs : \A j \in idxs : j <= k

\* the errors a rule of the host can leave in the accumulator
ErrorsOfRule(rule) ==
    IF rule.name = "err" THEN {"bad bundle"}
    ELSE IF rule.name = "undef" THEN {"Rule 'undef' failed: Undefined word: nope"}
    ELSE {}

\* the result holds messages of the rules after the last inner reset only
OnlyLaterMessages ==
    (lastBV.done /\ ~lastBV.clean) =>
        LET rules == lastBV.pack.rules
            k == LastNested(rules)
            acc == lastBV.acc
            missing == MissingRequired(lastBV.bundle, lastBV.pack.required)
        IN  /\ k > 0
            /\ acc.warnings = <<>> /\ acc.suggestions = <<>>
            /\ \A n \in DOMAIN acc.errors :
                  /\ \A m \in DOMAIN missing : acc.errors[n] # missing[m]
                  /\ \E j \in (k + 1)..Len(rules) :
                        acc.errors[n].message \in ErrorsOfRule(rules[j])
            /\ acc.success = (acc.errors = <<>>)

\* C34: a bundle-validate or pack-ship executed by a rule body resets the
\* one accumulator the bundle-validate in progress reports to: after it the
\* accumulator holds the missing-required errors of the inner call only.
\* The result of the outer call is the accumulator as it is after the last
\* rule, so it holds only messages reported after the inner reset; the
\* missing-required errors of the outer call and the messages of its earlier
\* rules are not in it.
C34_SharedAccumulator ==
    [][ /\ (AtNative(ValidateWords) /\ InRule /\ err' = Ok /\ frames' # frames) =>
              LET docs == stack[Len(stack) - 1].v
                  pack == stack[Len(stack)].v
              IN  /\ validation'.errors = MissingRequired(docs, pack.required)
                  /\ validation'.warnings = <<>>
                  /\ validation'.suggestions = <<>>
                  /\ \A n \in DOMAIN frames :
                        frames[n].kind = "rule" => ~frames'[n].bv.clean
        /\ lastBV' # lastBV =>
              /\ lastBV'.acc = validation'
              /\ Last(stack') = Value("ValidationResult", validation')
        /\ OnlyLaterMessages'
      ]_vars

\* C34 witness: the bundle lacks both required types and the first rule
\* reported an error, the second rule ran pack-ship, and the result of the
\* outer call is a success without a message
C34_Witness ==
    /\ lastBV.done /\ ~lastBV.clean
    /\ lastBV.pack.required = <<"LICENSE", "CHANGELOG">>
    /\ lastBV.bundle = <<README>>
    /\ lastBV.pack.rules = <<HostRule("err"), HostRule("nested")>>
    /\ lastBV.acc = ValidationResult_default
    /\ Last(lastBV.after) = Value("ValidationResult", ValidationResult_default)

-----------------------------------------------------------------------------
(* Properties of the redefinition of a word.                                *)

\* a word and a quotation that name dup, then a definition of dup, then the
\* quotation and the word are run
RedefinesDup ==
    <<T("DefStart"), W("w"), W("dup"), T("DefEnd"),
      T("QuoteStart"), W("dup"), T("QuoteEnd"),
      T("DefStart"), W("dup"), I(9), T("DefEnd"), W("call"), W("w")>>

\* C35: a definition `: name ... ;` that is installed replaces whatever the
\* dictionary holds under name, a native word too, and leaves every other
\* entry as it is.  A Word token runs the entry the dictionary holds when
\* the token is executed, in the body of a word or of a quotation made
\* before that entry as well: after `: w dup ; [ dup ] : dup 9 ;` both
\* `call` and `w` push 9 and the native dup runs no more.
C35_LateBoundNoProtectedNames ==
    [][ /\ (AtToken /\ Tok.k = "DefStart" /\ err' = Ok) =>
              LET name == Top.tokens[Top.i + 1].arg IN
              /\ DOMAIN dictionary' = DOMAIN dictionary \cup {name}
              /\ dictionary'[name].kind = "User"
              /\ \A n \in DOMAIN dictionary \ {name} : dictionary'[n] = dictionary[n]
        /\ (AtWord /\ Tok.arg \in DOMAIN dictionary
                   /\ dictionary[Tok.arg].kind = "User") =>
              /\ frames' = Append(frames, Frame(dictionary[Tok.arg].body, "call", NoBV))
              /\ UNCHANGED <<stack, err>>
        /\ (status = "running" /\ status' = "idle" /\ run.program = RedefinesDup) =>
              /\ result' = Ok
              /\ dictionary'["dup"] = WordDef_User(<<I(9)>>)
              /\ stack' = run.entry \o <<Value("Int", 9), Value("Int", 9)>>
      ]_vars

\* C35 witness: the quotation made before the redefinition of dup has pushed
\* 9, and the body of w, installed before it, has entered the new dup
C35_Witness ==
    /\ status = "running" /\ err = Ok
    /\ run.program = RedefinesDup
    /\ "w" \in DOMAIN dictionary
    /\ dictionary["w"] = WordDef_User(<<W("dup")>>)
    /\ Len(frames) = 3
    /\ frames[2].tokens = <<W("dup")>>
    /\ frames[3].tokens = <<I(9)>> /\ frames[3].i = 1
    /\ stack = run.entry \o <<Value("Int", 9)>>

-----------------------------------------------------------------------------
(* Properties of the state an execution error leaves.                       *)

LoneSwap == <<I(1), W("swap")>>
AddToStr ==
    <<T("DefStart"), W("g"), I(1), T("DefEnd"), I(5), S("m"), W("warn!"),
      S("a"), I(1), W("+")>>

\* C36: a native word that fails has taken the operands it popped before
\* the failure and they stay off the stack: `swap` on a stack of one cell
\* leaves it empty, `+` on an Int above a Str takes both.  While the error
\* goes up to eval nothing is put back or undone, so the values pushed, the
\* words defined and the messages reported before it in the same eval are
\* there when eval returns the error.
C36_NothingRolledBack ==
    [][ /\ (AtNative({"swap"}) /\ Len(stack) = 1) =>
              /\ err' = StackUnderflow
              /\ stack' = <<>>
        /\ (AtNative({"+"}) /\ Len(stack) >= 2 /\ Last(stack).t = "Int"
                            /\ stack[Len(stack) - 1].t = "Str") =>
              /\ err'.kind = "TypeError"
              /\ stack' = SubSeq(stack, 1, Len(stack) - 2)
        /\ (status = "running" /\ err # Ok /\ frames # <<>> /\ Top.kind # "rule") =>
              UNCHANGED <<stack, dictionary, validation>>
        /\ (status = "running" /\ status' = "idle" /\ run.program = AddToStr) =>
              /\ result'.kind = "TypeError"
              /\ stack' = run.entry \o <<Value("Int", 5)>>
              /\ "g" \in DOMAIN dictionary'
              /\ dictionary'["g"] = WordDef_User(<<I(1)>>)
              /\ validation'.warnings # <<>>
              /\ Last(validation'.warnings) = ValidationMessage_new("m")
        /\ (status = "running" /\ status' = "idle" /\ run.program = LoneSwap
                               /\ run.entry = <<>>) =>
              /\ result' = StackUnderflow
              /\ stack' = <<>>
      ]_vars

\* C36 witness: eval returned the TypeError of `+`; the Str and the Int are
\* gone, the 5 pushed, the word defined and the warning reported before it
\* are there
C36_Witness ==
    /\ status = "idle"
    /\ run.program = AddToStr
    /\ result.kind = "TypeError"
    /\ stack = run.entry \o <<Value("Int", 5)>>
    /\ run.entry # <<>>
    /\ "g" \in DOMAIN dictionary
    /\ validation.warnings = <<ValidationMessage_new("m")>>

-----------------------------------------------------------------------------
(* Properties of eval on a source text.                                     *)

LexerFailure ==
    [s \in {UnterminatedString, UnterminatedEscape} |->
        IF s = UnterminatedString THEN ParseError("Unterminated string")
        ELSE ParseError("Unterminated escape sequence")]

\* C37: eval of a source the lexer fails on (a string or an escape sequence
\* without its end) returns the lexer's error at once: no token of the source
\* is executed, also not the ones before the failure, and the stack, the
\* dictionary and the accumulator are as they were.  An unmatched `[` and a
\* `:` definition without its `;` pass the lexer and are found when execute
\* reaches them: the tokens before them have taken effect when eval returns
\* the ParseError.
C37_TokenizedBeforeExecuted ==
    [][ /\ (status = "idle" /\ evals' = evals + 1
                            /\ run'.source \in DOMAIN LexerFailure) =>
              /\ status' = "idle"
              /\ frames' = <<>>
              /\ result' = LexerFailure[run'.source]
              /\ UNCHANGED <<stack, dictionary, validation, current_bundle>>
        /\ (status = "running" /\ status' = "idle"
                               /\ run.source \in {UnmatchedQuote, UnterminatedDef}) =>
              /\ result' = IF run.source = UnmatchedQuote
                           THEN ParseError("Unmatched quotation bracket")
                           ELSE ParseError("Unterminated word definition")
              /\ stack' = run.entry \o <<Value("Int", 5)>>
              /\ DOMAIN dictionary' = DOMAIN register_builtins \cup {"g"}
              /\ dictionary'["g"] = WordDef_User(<<>>)
      ]_vars

\* C37 witness: the second eval of a VM returned the error of the lexer; the
\* cells and the errors the first eval left are there and the word the
\* source defines before the open string is not
C37_Witness ==
    /\ status = "idle" /\ evals = 2
    /\ run.source = UnterminatedString
    /\ result = ParseError("Unterminated string")
    /\ stack # <<>> /\ run.entry = stack
    /\ validation.errors # <<>>
    /\ "g" \notin DOMAIN dictionary

-----------------------------------------------------------------------------
(* Properties of a definition with a stack-effect annotation.               *)

\* the tokens of `: sq ( a -- b ) dup * ;`
AnnotatedDefTokens ==
    <<T("DefStart"), W("sq"), T("StackEffectStart"), W("a"),
      Token("Comment", "-- b ) dup * ;")>>

\* C38: the lexer makes of the one-line source `: sq ( a -- b ) dup * ;` the
\* tokens DefStart, Word(sq), StackEffectStart, Word(a) and one Comment that
\* holds the rest of the line, closing parenthesis, body and `;` included;
\* eval of that source returns a ParseError, leaves the stack as it was and
\* adds no word sq to the dictionary.
C38_CommentHidesAnnotation ==
    run.source = AnnotatedDef =>
        /\ run.program = AnnotatedDefTokens
        /\ stack = run.entry
        /\ "sq" \notin DOMAIN dictionary
        /\ status = "idle" => result = ParseError("Unterminated word definition")

\* C38 witness: eval of the source has returned the ParseError
C38_Witness ==
    /\ status = "idle"
    /\ run.source = AnnotatedDef
    /\ run.program = AnnotatedDefTokens
    /\ result.kind = "ParseError"
    /\ "sq" \notin DOMAIN dictionary

-----------------------------------------------------------------------------
(* Properties of the progress of the lexer.                                 *)

\* the texts the host has the lexer tokenize
Tokenized == {input} \cup (IF Len(returned) >= 2 THEN {returned[2].text} ELSE {})

\* C39: a call of next_token, at whatever position of the text, returns the
\* end of the input, or the error of a string or an escape sequence without
\* its end, or a token and a position further on in the text: the position
\* grows with every token, tokenize returns after at most one token for each
\* character, and the error "Unexpected character" of an empty word is
\* returned for no input.
C39_TokenizeTerminates ==
    /\ \A text \in Tokenized : \A p \in 1..Len(text) + 1 :
          LET got == next_token(text, p) IN
          /\ (got.err = Ok /\ got.some) => got.pos > p /\ got.pos <= Len(text) + 1
          /\ (got.err = Ok /\ ~got.some) => got.pos = Len(text) + 1
          /\ got.err # Ok =>
                got.err \in {ParseError("Unterminated string"),
                             ParseError("Unterminated escape sequence")}
    /\ returned # <<>> =>
          /\ Len(returned[1].tokens) <= Len(input)
          /\ returned[1].err \in {Ok, ParseError("Unterminated string"),
                                  ParseError("Unterminated escape sequence")}

\* C39 witness: tokenize returned as many tokens as the source has
\* characters, a word that begins with a colon among them
C39_Witness ==
    /\ returned # <<>>
    /\ returned[1].err = Ok
    /\ Len(input) >= MaxPieces
    /\ Len(returned[1].tokens) = Len(input)
    /\ \E n \in DOMAIN input : input[n] = ":" /\ returned[1].tokens[n].k = "Word"

====
